---- MODULE Spec2Model ----
(***************************************************************************)
(* Verification model of the congress administration console              *)
(* (thedragongui/react-web-app).                                           *)
(*                                                                         *)
(* The application is a set of independent pages over a managed backend.  *)
(* Each part of it is modelled by its own group of variables and its own  *)
(* specification; a specification leaves the other groups at their idle   *)
(* values:                                                                 *)
(*   SpecSanitize  the file-name sanitizers (lib/files, storage API)       *)
(*   SpecUpload    uploadToArea / pathFor / listArea of the storage API    *)
(*   SpecLinks     the links page: live list, reordering, deletion         *)
(*   SpecProg      sessions and presentations: add, cascade delete, count  *)
(*   SpecPdf       the PDF import page: recursive listing of storage       *)
(*   SpecUi        the pages: admin gating, busy flags, error display      *)
(*   SpecFiles     the file utilities: isImage, isPdf, formatBytes         *)
(*   SpecSponsors  the sponsors page: whole-array writes of listSponsors   *)
(*   SpecAuth      AuthProvider, ProtectedRoute and the routes of App      *)
(*   SpecSub       the live lists: subscribe, cancel, deliver               *)
(*   SpecPag       the pagination of the participants list                  *)
(*   SpecForm      the session form: validation and submit                  *)
(***************************************************************************)
EXTENDS Integers, Sequences, FiniteSets, TLC

VARIABLES
    sName,      \* sanitize: the file name given (a sequence of UTF-16 code units)
    sRes,       \* sanitize: results computed so far
    store,      \* storage API: paths of the objects held by the storage bucket
    up,         \* storage API: the last uploadToArea call and its outcome
    now,        \* storage API: the value Date.now() returns
    liens,      \* links: the documents of the 'liens' collection, by id
    rows,       \* links: per admin client, the last snapshot watchLinks delivered
    swapLog,    \* links: the last swapLinkOrder call (arguments, outcome)
    linkWrites, \* links: number of link writes made so far
    sessions,   \* programme: the existing session documents, <<congress, session>>
    pres,       \* programme: the existing presentation documents
    nextPres,   \* programme: how many presentation ids have been handed out
    op,         \* programme: per client, the API call in progress and what it has read
    progLog,    \* programme: the deleteSessionCascade / count call that ended in the last step
    bucket,     \* pdf import: the storage objects, each a path of segments
    pdfRes,     \* pdf import: the last collectAllPdfs call and its result
    gathered,   \* pdf import: the last gatherPdfsFrom call and what it returned
    authIsAdmin, \* pages: isAdmin of useAuth(), the admin flag of the signed-in user
    page,       \* pages: the page the router shows
    partMode,   \* pages: ParticipantsPage, "creating" / "selected" / "none"
    dialog,     \* pages: the modal of the page, "none" / "form" / "confirm"
    busy,       \* pages: the operations whose busy flag is true
    shown,      \* pages: the operations whose error message is displayed
    inflight,   \* pages: the backend request a handler is awaiting
    sent,       \* pages: the writes sent to the backend so far
    uncaught,   \* pages: the operations whose rejection nobody handled
    lastEnd,    \* pages: the operation that ended in the last step
    fArg,       \* file utilities: the argument given to isImage / isPdf / formatBytes
    fRes,       \* file utilities: the function last called and its result
    listSponsors, \* sponsors: the stored congres.listSponsors array
    congres,    \* sponsors: each client's congres state, from its last snapshot or own write
    sponPending, \* sponsors: each client's updateCongres call in flight
    sponClock,  \* sponsors: Date.now() as seen by the next new sponsor
    sponLog,    \* sponsors: the write that just ended
    fbUser,     \* auth: the user the auth service is signed in as
    provUser,   \* auth: AuthProvider state user
    provIsAdmin, \* auth: AuthProvider state isAdmin
    provLoading, \* auth: AuthProvider state loading
    lastAdminClaimRef, \* auth: AuthProvider ref, the admin flag last read
    lastSignInTimeRef, \* auth: AuthProvider ref, the sign-in time last seen
    lookups,    \* auth: the callbacks waiting for getIdTokenResult
    authEvents, \* auth: how many auth-state changes were delivered
    claimOf,    \* auth: the user whose token gave the isAdmin state
    location,   \* auth: the router's current path
    rendered,   \* auth: what the router shows
    lastRedirect, \* auth: the redirect the last render made
    subMounted, \* live lists: whether each page is mounted
    subCongres, \* live lists: the congress id each page watches
    listeners,  \* live lists: the snapshot listeners registered and not cancelled
    snapsQueued, \* live lists: the listeners a snapshot event is on its way to
    subRows,    \* live lists: the congress whose data is in each page's rows
    subLoading, \* live lists: each page's loading flag
    nextListener, \* live lists: the number of the next listener
    subLog,     \* live lists: what the last delivery or cleanup wrote
    pagVersion, \* pagination: which of the two participants pages is mounted
    pagCount,   \* pagination: how many participants the last snapshot delivered
    pagOnlyAdmins, \* pagination: the onlyAdmins filter
    pagPage,    \* pagination: the page state
    pagResetDue,\* pagination: whether the page-reset effect has yet to run
    pagLast,    \* pagination: the event handled last
    formIsEdit, \* session form: whether the session modal edits a stored session
    formTitle,  \* session form: the title field
    formDate,   \* session form: the date field
    formStart,  \* session form: the start field
    formEnd,    \* session form: the end field
    formRoom,   \* session form: the room field
    formOpen,   \* session form: whether the modal is open
    formSubmitting, \* session form: the submitting flag
    formError,  \* session form: the error state of the modal
    formLog     \* session form: what the last handleSubmit step did

sanVars == <<sName, sRes>>
upVars  == <<store, up, now>>
linkVars == <<liens, rows, swapLog, linkWrites>>
progVars == <<sessions, pres, nextPres, op, progLog>>
pdfVars == <<bucket, pdfRes, gathered>>
uiVars  == <<authIsAdmin, page, partMode, dialog, busy, shown, inflight, sent, uncaught, lastEnd>>
filesVars == <<fArg, fRes>>
sponVars == <<listSponsors, congres, sponPending, sponClock, sponLog>>
authVars == <<fbUser, provUser, provIsAdmin, provLoading, lastAdminClaimRef, lastSignInTimeRef, lookups, authEvents, claimOf, location, rendered, lastRedirect>>
subVars == <<subMounted, subCongres, listeners, snapsQueued, subRows, subLoading, nextListener, subLog>>
pagVars == <<pagVersion, pagCount, pagOnlyAdmins, pagPage, pagResetDue, pagLast>>
formVars == <<formIsEdit, formTitle, formDate, formStart, formEnd, formRoom, formOpen, formSubmitting, formError, formLog>>
vars    == <<sName, sRes, store, up, now, liens, rows, swapLog, linkWrites,
             sessions, pres, nextPres, op, progLog, bucket, pdfRes, gathered,
             authIsAdmin, page, partMode, dialog, busy, shown, inflight, sent, uncaught, lastEnd,
             fArg, fRes,
             listSponsors, congres, sponPending, sponClock, sponLog,
             fbUser, provUser, provIsAdmin, provLoading, lastAdminClaimRef, lastSignInTimeRef, lookups, authEvents, claimOf, location, rendered, lastRedirect,
             subMounted, subCongres, listeners, snapsQueued, subRows, subLoading, nextListener, subLog,
             pagVersion, pagCount, pagOnlyAdmins, pagPage, pagResetDue, pagLast,
             formIsEdit, formTitle, formDate, formStart, formEnd, formRoom, formOpen, formSubmitting, formError, formLog>>

\* what the actions of one part leave alone: the variables of the other parts
othersSan   == <<upVars, linkVars, progVars, pdfVars, uiVars, filesVars, sponVars, authVars, subVars, pagVars, formVars>>
othersUp    == <<sanVars, linkVars, progVars, pdfVars, uiVars, filesVars, sponVars, authVars, subVars, pagVars, formVars>>
othersLinks == <<sanVars, upVars, progVars, pdfVars, uiVars, filesVars, sponVars, authVars, subVars, pagVars, formVars>>
othersProg  == <<sanVars, upVars, linkVars, pdfVars, uiVars, filesVars, sponVars, authVars, subVars, pagVars, formVars>>
othersPdf   == <<sanVars, upVars, linkVars, progVars, uiVars, filesVars, sponVars, authVars, subVars, pagVars, formVars>>
othersUi    == <<sanVars, upVars, linkVars, progVars, pdfVars, filesVars, sponVars, authVars, subVars, pagVars, formVars>>
othersFiles == <<sanVars, upVars, linkVars, progVars, pdfVars, uiVars, sponVars, authVars, subVars, pagVars, formVars>>
othersSpon == <<sanVars, upVars, linkVars, progVars, pdfVars, uiVars, filesVars, authVars, subVars, pagVars, formVars>>
othersAuth == <<sanVars, upVars, linkVars, progVars, pdfVars, uiVars, filesVars, sponVars, subVars, pagVars, formVars>>
othersSub == <<sanVars, upVars, linkVars, progVars, pdfVars, uiVars, filesVars, sponVars, authVars, pagVars, formVars>>
othersPag == <<sanVars, upVars, linkVars, progVars, pdfVars, uiVars, filesVars, sponVars, authVars, subVars, formVars>>
othersForm == <<sanVars, upVars, linkVars, progVars, pdfVars, uiVars, filesVars, sponVars, authVars, subVars, pagVars>>

(***************************************************************************)
(* Strings.  A JavaScript string is a sequence of UTF-16 code units; a    *)
(* code unit is modelled by a one-token TLA+ string.  ASCII characters    *)
(* stand for themselves; "e_acute" is U+00E9 and "hi_surr" / "lo_surr"    *)
(* are the two halves of a character outside the basic plane.             *)
(***************************************************************************)
AsciiLower == {"a","b","c","d","e","f","g","h","i","j","k","l","m",
               "n","o","p","q","r","s","t","u","v","w","x","y","z"}
AsciiUpper == {"A","B","C","D","E","F","G","H","I","J","K","L","M",
               "N","O","P","Q","R","S","T","U","V","W","X","Y","Z"}
AsciiDigit == {"0","1","2","3","4","5","6","7","8","9"}

\* The regular-expression class \w (no unicode flag): [A-Za-z0-9_]
WordChar == AsciiLower \cup AsciiUpper \cup AsciiDigit \cup {"_"}

\* Code units the model draws file names from.
Alphabet == {"a", "Z", "7", "_", ".", "-", " ", "/", "e_acute", "hi_surr", "lo_surr"}

MaxLen == 3

RECURSIVE StringsUpTo(_)
StringsUpTo(n) ==
    IF n = 0 THEN {<<>>}
    ELSE LET shorter == StringsUpTo(n - 1)
         IN  shorter \cup {Append(s, c) : s \in {t \in shorter : Len(t) = n - 1}, c \in Alphabet}

IsPrefix(p, s) == Len(p) <= Len(s) /\ SubSeq(s, 1, Len(p)) = p

(***************************************************************************)
(* sanitizeFileName: name.replace(/[^\w.\-]/g, '_')                        *)
(***************************************************************************)
\* mutant: the hyphen is missing from the character class
sanitizeFileName_noHyphen(name) ==
    [i \in 1..Len(name) |-> IF name[i] \in WordChar \cup {"."} THEN name[i] ELSE "_"]

\* lib/files.ts
sanitizeFileName(name) ==
    [i \in 1..Len(name) |-> IF name[i] \in WordChar \cup {".", "-"} THEN name[i] ELSE "_"]

\* storage/storageApi.ts (private copy)
sanitizeFileName_storageApi(name) ==
    [i \in 1..Len(name) |-> IF name[i] \in WordChar \cup {".", "-"} THEN name[i] ELSE "_"]

NotRun == [done |-> FALSE, val |-> <<>>]
Ran(v) == [done |-> TRUE, val |-> v]

SanIdle == sName = <<>> /\ sRes = [files |-> NotRun, storage |-> NotRun, twice |-> NotRun]

SanInit ==
    /\ sName \in StringsUpTo(MaxLen)
    /\ sRes = [files |-> NotRun, storage |-> NotRun, twice |-> NotRun]

\* a caller sanitizes the name with the lib/files copy
CallSanitizeFiles ==
    /\ ~sRes.files.done
    /\ sRes' = [sRes EXCEPT !.files = Ran(sanitizeFileName(sName))]
    /\ UNCHANGED <<sName, othersSan>>

\* a caller sanitizes the name with the storageApi copy
CallSanitizeStorage ==
    /\ ~sRes.storage.done
    /\ sRes' = [sRes EXCEPT !.storage = Ran(sanitizeFileName_storageApi(sName))]
    /\ UNCHANGED <<sName, othersSan>>

\* a caller sanitizes an already sanitized name again
CallSanitizeAgain ==
    /\ sRes.files.done
    /\ ~sRes.twice.done
    /\ sRes' = [sRes EXCEPT !.twice = Ran(sanitizeFileName(sRes.files.val))]
    /\ UNCHANGED <<sName, othersSan>>

(***************************************************************************)
(* Storage API (storage/storageApi.ts)                                     *)
(***************************************************************************)
userOwned == {"qrcodes", "qrcodesCarteDeVisite", "photos", "badges", "intervenants"}
adminOnlyWrite == {"imgIntervenants", "imgSponsors", "programme", "abstracts", "plan"}
StorageArea == userOwned \cup adminOnlyWrite

NoUser == "null"
Uids == {"u1", "u2"}
Users == Uids \cup {NoUser}

\* File names offered to uploadToArea.
FileNames == { <<"a", ".", "7">>, <<"Z", " ", "/", "a">> }

MaxClock == 2
MaxObjects == 1

ErrAdmin == "Vous n'avez pas les droits pour envoyer un fichier dans cette zone (admin requis)."
ErrUser == "Utilisateur requis pour cette zone."

Thrown(msg) == [ok |-> FALSE, err |-> msg, path |-> <<>>]
Returned(p) == [ok |-> TRUE, err |-> "", path |-> p]

\* mutant: the uid folder is left out of a user-owned path
pathFor_noUid(area, user, fileName, ts) ==
    LET fn == sanitizeFileName_storageApi(fileName)
    IN  IF area \in userOwned /\ user = NoUser
        THEN Thrown(ErrUser)
        ELSE Returned(<<area, "/", ToString(ts), "_">> \o fn)

\* pathFor(area, user, fileName); ts is the value of Date.now()
pathFor(area, user, fileName, ts) ==
    LET fn == sanitizeFileName_storageApi(fileName)
    IN  IF area \in userOwned
        THEN IF user = NoUser
             THEN Thrown(ErrUser)
             ELSE Returned(<<area, "/", user, "/", ToString(ts), "_">> \o fn)
        ELSE Returned(<<area, "/", ToString(ts), "_">> \o fn)

\* mutant: the client-side admin check is dropped
uploadOutcome_noAdminCheck(area, fileName, user, isAdmin, ts) ==
    pathFor(area, user, fileName, ts)

\* what uploadToArea does before it touches the bucket: the admin check, then pathFor
uploadOutcome(area, fileName, user, isAdmin, ts) ==
    IF area \in adminOnlyWrite /\ ~isAdmin
    THEN Thrown(ErrAdmin)
    ELSE pathFor(area, user, fileName, ts)

\* listArea: the prefix it lists
listAreaPrefix(area, user) ==
    IF user # NoUser /\ area \in userOwned
    THEN <<area, "/", user, "/">>
    ELSE <<area, "/">>

\* listAll(ref).items: the objects directly under the prefix (no further "/")
listAllItems(prefix, objects) ==
    {p \in objects :
        /\ IsPrefix(prefix, p)
        /\ Len(p) > Len(prefix)
        /\ \A i \in (Len(prefix) + 1)..Len(p) : p[i] # "/"}

\* listArea(area, user).items, by path
listArea(area, user, objects) == listAllItems(listAreaPrefix(area, user), objects)

NoCall == [area |-> "none", user |-> NoUser, isAdmin |-> FALSE, name |-> <<>>,
           ts |-> 0, res |-> Thrown(""), before |-> {}]

UpIdle == store = {} /\ up = NoCall /\ now = 1

UpInit == store = {} /\ up = NoCall /\ now = 1

\* uploadToArea(area, file, user, isAdmin): uploadBytes runs only when nothing threw
UploadToArea ==
    \E area \in StorageArea, name \in FileNames, user \in Users, isAdmin \in BOOLEAN :
        LET res == uploadOutcome(area, name, user, isAdmin, now)
        IN  /\ Cardinality(store) < MaxObjects \/ ~res.ok
            /\ store' = IF res.ok THEN store \cup {res.path} ELSE store
            /\ up' = [area |-> area, user |-> user, isAdmin |-> isAdmin, name |-> name,
                      ts |-> now, res |-> res, before |-> store]
            /\ UNCHANGED <<now, othersUp>>

\* time passes
Tick ==
    /\ now < MaxClock
    /\ now' = now + 1
    /\ UNCHANGED <<store, up, othersUp>>


(***************************************************************************)
(* Links (firestore/firestoreApi.ts "LIENS", pages/LinksPage)              *)
(*                                                                         *)
(* A link document is [exists, hasOrder, order]; hasOrder = FALSE is a     *)
(* document whose 'order' is null (written by another tool), which the     *)
(* ordered query lists first and for which `order ?? 0` is 0.  A link's    *)
(* title never changes here, and titles sort like the ids.                 *)
(***************************************************************************)
LinkIds == {1, 2, 3}
LinkClients == {"adminA", "adminB"}
MaxOrder == 3
MaxLinkWrites == 3

NoLink == [exists |-> FALSE, hasOrder |-> FALSE, order |-> 0]
LinkDoc(o) == [exists |-> TRUE, hasOrder |-> TRUE, order |-> o]
NullOrderDoc == [exists |-> TRUE, hasOrder |-> FALSE, order |-> 0]

\* a.order ?? 0
OrderOrZero(a) == IF a.hasOrder THEN a.order ELSE 0

\* position of a document in orderBy('order', 'asc'), orderBy('title', 'asc'):
\* null sorts before every number
LinkBefore(docs, i, j) ==
    LET ki == IF docs[i].hasOrder THEN docs[i].order + 1 ELSE 0
        kj == IF docs[j].hasOrder THEN docs[j].order + 1 ELSE 0
    IN  ki < kj \/ (ki = kj /\ i < j)

\* watchLinks: the rows a snapshot carries, {id, order} in query order
LinksQuery(docs) ==
    LET ids == {i \in LinkIds : docs[i].exists}
        rank(i) == Cardinality({j \in ids : LinkBefore(docs, j, i)}) + 1
    IN  [k \in 1..Cardinality(ids) |->
            LET i == CHOOSE x \in ids : rank(x) = k
            IN  [id |-> i, hasOrder |-> docs[i].hasOrder, order |-> docs[i].order]]

\* mutant: each link is written its own order back
swapLinkOrder_noSwap(a, b, docs) ==
    IF docs[a.id].exists /\ docs[b.id].exists
    THEN [ok |-> TRUE,
          docs |-> [docs EXCEPT ![a.id] = LinkDoc(OrderOrZero(a)),
                                ![b.id] = LinkDoc(OrderOrZero(b))]]
    ELSE [ok |-> FALSE, docs |-> docs]

\* swapLinkOrder(a, b): one batch of two updates; an update of a missing document
\* rejects the whole batch
swapLinkOrder(a, b, docs) ==
    LET ao == OrderOrZero(a)
        bo == OrderOrZero(b)
    IN  IF docs[a.id].exists /\ docs[b.id].exists
        THEN [ok |-> TRUE,
              docs |-> [[docs EXCEPT ![a.id] = LinkDoc(bo)] EXCEPT ![b.id] = LinkDoc(ao)]]
        ELSE [ok |-> FALSE, docs |-> docs]

NoSwap == [n |-> 0, ok |-> FALSE, a |-> [id |-> 0, hasOrder |-> FALSE, order |-> 0],
           b |-> [id |-> 0, hasOrder |-> FALSE, order |-> 0]]

LinksIdle ==
    /\ liens = [i \in LinkIds |-> NoLink]
    /\ rows = [c \in LinkClients |-> <<>>]
    /\ swapLog = NoSwap
    /\ linkWrites = 0

\* the collection as found when the pages open; each client has its first snapshot
LinksInit ==
    /\ liens \in [LinkIds -> {LinkDoc(o) : o \in 1..MaxOrder} \cup {NullOrderDoc}]
    /\ \A i, j \in LinkIds : (i # j /\ liens[i].hasOrder /\ liens[j].hasOrder)
                                => liens[i].order # liens[j].order
    /\ rows = [c \in LinkClients |-> LinksQuery(liens)]
    /\ swapLog = NoSwap
    /\ linkWrites = 0

\* the onSnapshot listener of watchLinks delivers the current list to a client
LinkSnapshot(c) ==
    /\ rows[c] # LinksQuery(liens)
    /\ rows' = [rows EXCEPT ![c] = LinksQuery(liens)]
    /\ UNCHANGED <<liens, swapLog, linkWrites, othersLinks>>

\* LinksPage.move(up, idx): swap row idx with its neighbour, as the client sees them
LinkMove(c, isUp, idx) ==
    LET nb == IF isUp THEN idx - 1 ELSE idx + 1
    IN  /\ linkWrites < MaxLinkWrites
        /\ idx \in 1..Len(rows[c])
        /\ nb \in 1..Len(rows[c])
        /\ LET a == rows[c][idx]
               b == rows[c][nb]
               res == swapLinkOrder(a, b, liens)
           IN  /\ liens' = res.docs
               /\ swapLog' = [n |-> 1 - swapLog.n, ok |-> res.ok, a |-> a, b |-> b]
        /\ linkWrites' = linkWrites + 1
        /\ UNCHANGED <<rows, othersLinks>>

\* LinksPage confirm dialog: deleteLink(confirm.id) for a row the client sees
LinkDelete(c, idx) ==
    /\ linkWrites < MaxLinkWrites
    /\ idx \in 1..Len(rows[c])
    /\ liens' = [liens EXCEPT ![rows[c][idx].id] = NoLink]
    /\ linkWrites' = linkWrites + 1
    /\ UNCHANGED <<rows, swapLog, othersLinks>>


(***************************************************************************)
(* Programme: sessions and presentations (firestore/firestoreApi.ts)       *)
(*                                                                         *)
(* Documents live at congres/{c}/sessions/{s} and                          *)
(* congres/{c}/sessions/{s}/presentations/{p}.  Every API call that awaits *)
(* the backend more than once is a sequence of steps, and calls of         *)
(* different clients interleave at those awaits.  A presentation document  *)
(* carries two history fields: auto (it was created without an index) and  *)
(* seen (the indexes stored in its session when the creating call ran its  *)
(* query).                                                                 *)
(***************************************************************************)
ProgClients == {"clientA", "clientB"}
\* clientA has the dashboard open as well, clientB deletes sessions
Counters == {"clientA"}
Cascaders == {"clientB"}
Congresses == {"c1", "c2"}
AllSessions == {<<"c1", "s1">>, <<"c1", "s2">>, <<"c2", "s3">>}
ExplicitIndexes == {4}
MaxPres == 2

SetMax(S) == CHOOSE x \in S : \A y \in S : y <= x
SetMin(S) == CHOOSE x \in S : \A y \in S : x <= y

RECURSIVE SetSum(_, _)
SetSum(S, f) ==
    IF S = {} THEN 0
    ELSE LET x == CHOOSE y \in S : TRUE
         IN  f[x] + SetSum(S \ {x}, f)

\* the documents of presentationsCol(congresId, sessionId)
presentationsCol(docs, c, s) == {d \in docs : d.cong = c /\ d.sess = s}

\* the session ids of sessionsCol(congresId), in document-id order
RECURSIVE SortedSeq(_)
SortedSeq(S) ==
    IF S = {} THEN <<>>
    ELSE LET x == CHOOSE y \in S : \A z \in S : (y = z) \/ (y \in {"s1"} /\ z \in {"s2", "s3"})
                                                \/ (y = "s2" /\ z = "s3")
         IN  <<x>> \o SortedSeq(S \ {x})
sessionsCol(sess, c) == SortedSeq({x[2] : x \in {y \in sess : y[1] = c}})

\* mutant: the query is ordered ascending, so the smallest index is read
getNextPresentationIndex_asc(docs, c, s) ==
    LET col == presentationsCol(docs, c, s)
        max == IF col = {} THEN 0 ELSE SetMin({d.index : d \in col})
    IN  max + 1

\* getNextPresentationIndex: orderBy('index', 'desc'), limit(1); an empty result gives 0
getNextPresentationIndex(docs, c, s) ==
    LET col == presentationsCol(docs, c, s)
        max == IF col = {} THEN 0 ELSE SetMax({d.index : d \in col})
    IN  max + 1

\* mutant: the batch deletes the presentations and leaves the session document
cascadeBatch_keepSession(sess, docs, c, s, listed) ==
    [sessions |-> sess, pres |-> {d \in docs : d.id \notin listed}]

\* the batch of deleteSessionCascade: a delete per listed presentation, one for the session
cascadeBatch(sess, docs, c, s, listed) ==
    [sessions |-> sess \ {<<c, s>>}, pres |-> {d \in docs : d.id \notin listed}]

\* mutant: the count of a session replaces the total instead of being added to it
addCount_replace(total, cnt) == cnt

\* total += cnt.data().count
addCount(total, cnt) == total + cnt

\* getCountFromServer(presentationsCol(congresId, s.id)).data().count
getCountFromServer(docs, c, s) == Cardinality(presentationsCol(docs, c, s))

Idle == [kind |-> "idle", cong |-> "c1", sess |-> "s1", next |-> 0, seen |-> {},
         listed |-> {}, todo |-> <<>>, total |-> 0, quiet |-> TRUE, counted |-> <<>>]

NoLog == [kind |-> "none", cong |-> "c1", sess |-> "s1", committed |-> FALSE,
          removed |-> 0, total |-> 0, quiet |-> TRUE, counted |-> <<>>]

\* a write to congress c disturbs every count of that congress that is in progress
Disturbed(ops, c) ==
    [k \in ProgClients |->
        IF ops[k].kind = "count" /\ ops[k].cong = c
        THEN [ops[k] EXCEPT !.quiet = FALSE] ELSE ops[k]]

ProgIdle ==
    /\ sessions = {} /\ pres = {} /\ nextPres = 0
    /\ op = [k \in ProgClients |-> Idle]
    /\ progLog = NoLog

\* a session that already holds two presentations, created with indexes 2 and 4
SeedPres ==
    {[id |-> -1, cong |-> "c1", sess |-> "s1", index |-> 2, auto |-> FALSE, seen |-> {}],
     [id |-> 0, cong |-> "c1", sess |-> "s1", index |-> 4, auto |-> FALSE, seen |-> {}]}

ProgInit ==
    /\ sessions = AllSessions /\ pres \in {{}, SeedPres} /\ nextPres = 0
    /\ op = [k \in ProgClients |-> Idle]
    /\ progLog = NoLog

NewPres(c, s, index, auto, seen) ==
    [id |-> nextPres + 1, cong |-> c, sess |-> s, index |-> index, auto |-> auto, seen |-> seen]

\* addPresentation with data.index given: a single addDoc
AddWithIndex(k, c, s, index) ==
    /\ op[k].kind = "idle"
    /\ <<c, s>> \in sessions
    /\ nextPres < MaxPres
    /\ pres' = pres \cup {NewPres(c, s, index, FALSE, {})}
    /\ nextPres' = nextPres + 1
    /\ op' = Disturbed(op, c)
    /\ progLog' = NoLog
    /\ UNCHANGED <<sessions, othersProg>>

\* addPresentation without index, first await: getNextPresentationIndex
AddRead(k, c, s) ==
    /\ op[k].kind = "idle"
    /\ <<c, s>> \in sessions
    /\ nextPres < MaxPres
    /\ op' = [op EXCEPT ![k] = [Idle EXCEPT !.kind = "add", !.cong = c, !.sess = s,
                                  !.next = getNextPresentationIndex(pres, c, s),
                                  !.seen = {d.index : d \in presentationsCol(pres, c, s)}]]
    /\ progLog' = NoLog
    /\ UNCHANGED <<sessions, pres, nextPres, othersProg>>

\* addPresentation without index, second await: addDoc with the index computed
AddWrite(k) ==
    /\ op[k].kind = "add"
    /\ nextPres < MaxPres
    /\ pres' = pres \cup {NewPres(op[k].cong, op[k].sess, op[k].next, TRUE, op[k].seen)}
    /\ nextPres' = nextPres + 1
    /\ op' = Disturbed([op EXCEPT ![k] = Idle], op[k].cong)
    /\ progLog' = NoLog
    /\ UNCHANGED <<sessions, othersProg>>

\* deleteSessionCascade, first await: getDocs of the session's presentations
CascadeList(k, c, s) ==
    /\ op[k].kind = "idle"
    /\ <<c, s>> \in sessions
    /\ op' = [op EXCEPT ![k] = [Idle EXCEPT !.kind = "del", !.cong = c, !.sess = s,
                                  !.listed = {d.id : d \in presentationsCol(pres, c, s)}]]
    /\ progLog' = NoLog
    /\ UNCHANGED <<sessions, pres, nextPres, othersProg>>

\* deleteSessionCascade, second await: batch.commit() applies every delete at once
CascadeCommit(k) ==
    /\ op[k].kind = "del"
    /\ LET after == cascadeBatch(sessions, pres, op[k].cong, op[k].sess, op[k].listed)
       IN  /\ sessions' = after.sessions
           /\ pres' = after.pres
    /\ op' = Disturbed([op EXCEPT ![k] = Idle], op[k].cong)
    /\ progLog' = [NoLog EXCEPT !.kind = "del", !.cong = op[k].cong, !.sess = op[k].sess,
                                 !.committed = TRUE,
                                 !.removed = Cardinality({d \in pres : d.id \in op[k].listed})]
    /\ UNCHANGED <<nextPres, othersProg>>

\* deleteSessionCascade, second await: batch.commit() is rejected and changes nothing
CascadeRejected(k) ==
    /\ op[k].kind = "del"
    /\ op' = [op EXCEPT ![k] = Idle]
    /\ progLog' = [NoLog EXCEPT !.kind = "del", !.cong = op[k].cong, !.sess = op[k].sess]
    /\ UNCHANGED <<sessions, pres, nextPres, othersProg>>

\* countPresentationsInCongres, first await: getDocs of the congress's sessions
CountList(k, c) ==
    /\ op[k].kind = "idle"
    /\ LET todo == sessionsCol(sessions, c)
       IN  IF todo = <<>>
           THEN /\ op' = op
                /\ progLog' = [NoLog EXCEPT !.kind = "count", !.cong = c]
           ELSE /\ op' = [op EXCEPT ![k] = [Idle EXCEPT !.kind = "count", !.cong = c,
                                              !.todo = todo]]
                /\ progLog' = NoLog
    /\ UNCHANGED <<sessions, pres, nextPres, othersProg>>

\* countPresentationsInCongres, one turn of the loop: count the next session's
\* presentations; after the last session the total is returned
CountStep(k) ==
    /\ op[k].kind = "count"
    /\ LET s == Head(op[k].todo)
           cnt == getCountFromServer(pres, op[k].cong, s)
           total == addCount(op[k].total, cnt)
           counted == Append(op[k].counted, <<s, Cardinality(presentationsCol(pres, op[k].cong, s))>>)
       IN  IF Len(op[k].todo) > 1
           THEN /\ op' = [op EXCEPT ![k].todo = Tail(op[k].todo), ![k].total = total,
                                    ![k].counted = counted]
                /\ progLog' = NoLog
           ELSE /\ op' = [op EXCEPT ![k] = Idle]
                /\ progLog' = [NoLog EXCEPT !.kind = "count", !.cong = op[k].cong,
                                 !.total = total, !.quiet = op[k].quiet,
                                 !.counted = counted]
    /\ UNCHANGED <<sessions, pres, nextPres, othersProg>>


(***************************************************************************)
(* PDF import page (pages/StorageDemo.tsx): collectAllPdfs                 *)
(*                                                                         *)
(* A storage object is a path, a sequence of segments; a segment is a      *)
(* string.  A folder exists when an object lies below it.  listAll(ref)    *)
(* gives the objects directly under ref (items) and the folders directly  *)
(* under ref (prefixes), both in name order.                               *)
(***************************************************************************)
SegBPdF   == <<"B", ".", "P", "d", "F">>
SegApdfx  == <<"a", ".", "p", "d", "f", "x">>
SegDpdf   == <<"d", ".", "p", "d", "f">>
SegPdf    == <<"p", "d", "f">>
SegX      == <<"x">>
SegOrder  == <<SegBPdF, SegApdfx, SegDpdf, SegPdf, SegX>>
FileSegs   == {SegBPdF, SegApdfx, SegDpdf, SegPdf}
Folders == {<<>>, <<SegX>>, <<SegDpdf>>, <<SegX, SegDpdf>>}
AllPaths == {Append(d, n) : d \in Folders, n \in FileSegs}
MaxFiles == 3

UpperLetters == <<"A","B","C","D","E","F","G","H","I","J","K","L","M",
                  "N","O","P","Q","R","S","T","U","V","W","X","Y","Z">>
LowerLetters == <<"a","b","c","d","e","f","g","h","i","j","k","l","m",
                  "n","o","p","q","r","s","t","u","v","w","x","y","z">>

\* the lower-case form of each upper-case ASCII letter
LowerOf ==
    [ch \in {UpperLetters[j] : j \in 1..Len(UpperLetters)} |->
        LowerLetters[CHOOSE j \in 1..Len(UpperLetters) : UpperLetters[j] = ch]]

\* String.prototype.toLowerCase on the code units the model uses
toLowerCase(s) ==
    [i \in 1..Len(s) |-> IF s[i] \in DOMAIN LowerOf THEN LowerOf[s[i]] ELSE s[i]]

\* String.prototype.endsWith
endsWith(s, suffix) ==
    Len(suffix) <= Len(s) /\ SubSeq(s, Len(s) - Len(suffix) + 1, Len(s)) = suffix

DotPdf == <<".", "p", "d", "f">>

\* mutant: the name is not lower-cased before the test
isPdfName_caseSensitive(name) == endsWith(name, DotPdf)

\* the filter of collectAllPdfs: itemRef.name.toLowerCase().endsWith('.pdf')
isPdfName(name) == endsWith(toLowerCase(name), DotPdf)

SortSegs(S) == SelectSeq(SegOrder, LAMBDA seg : seg \in S)

\* listAll(ref): items and prefixes directly under ref
listAll(ref, objs) ==
    LET under == {q \in objs : IsPrefix(ref, q) /\ Len(q) > Len(ref)}
    IN  [items    |-> SortSegs({q[Len(ref) + 1] : q \in {r \in under : Len(r) = Len(ref) + 1}}),
         prefixes |-> SortSegs({q[Len(ref) + 1] : q \in {r \in under : Len(r) > Len(ref) + 1}})]

\* the row built for one item; a failed getMetadata / getDownloadURL leaves nulls
PdfItem(ref, seg, metaFails, urlFails) ==
    [name |-> seg, path |-> Append(ref, seg),
     url |-> IF urlFails THEN "null" ELSE "url",
     timeCreated |-> IF metaFails THEN "null" ELSE "t",
     folder |-> ref]

RECURSIVE Flatten(_)
Flatten(qs) == IF qs = <<>> THEN <<>> ELSE Head(qs) \o Flatten(Tail(qs))

RECURSIVE SumCalls(_)
SumCalls(qs) == IF qs = <<>> THEN 0 ELSE Head(qs).calls + SumCalls(Tail(qs))

ListRejected == [ok |-> FALSE, rows |-> <<>>, calls |-> 0]

\* collectAllPdfs(baseRef); calls counts the listAll requests made.  A listAll
\* that rejects makes the whole call reject.
RECURSIVE collectAllPdfs(_, _, _, _, _)
collectAllPdfs(ref, objs, badList, metaFails, urlFails) ==
    IF ref \in badList THEN ListRejected
    ELSE LET listing == listAll(ref, objs)
             pdfs == SelectSeq(listing.items, LAMBDA seg : isPdfName(seg))
             currentLevel == [i \in 1..Len(pdfs) |-> PdfItem(ref, pdfs[i], metaFails, urlFails)]
         IN  IF Len(listing.prefixes) = 0
             THEN [ok |-> TRUE, rows |-> currentLevel, calls |-> 1]
             ELSE LET nestedLevels ==
                          [i \in 1..Len(listing.prefixes) |->
                              collectAllPdfs(Append(ref, listing.prefixes[i]), objs,
                                             badList, metaFails, urlFails)]
                  IN  IF \E i \in 1..Len(nestedLevels) : ~nestedLevels[i].ok
                      THEN ListRejected
                      ELSE [ok |-> TRUE,
                            rows |-> currentLevel \o Flatten([i \in 1..Len(nestedLevels) |->
                                                                nestedLevels[i].rows]),
                            calls |-> 1 + SumCalls(nestedLevels)]

NoPdfCall == [done |-> FALSE, base |-> <<>>, res |-> ListRejected]

\* The names of the model in the order of String.prototype.localeCompare.
LocaleOrder == <<SegApdfx, SegBPdF, SegDpdf, SegPdf, SegX>>
localeRank(seg) == CHOOSE i \in 1..Len(LocaleOrder) : LocaleOrder[i] = seg

\* The comparator of sortPdfs: newest first when both rows have a creation time (all
\* creation times of the model are equal), otherwise by name, descending.
pdfCompare(a, b) ==
    IF a.timeCreated # "null" /\ b.timeCreated # "null"
    THEN 0
    ELSE localeRank(b.name) - localeRank(a.name)

\* Array.prototype.sort with that comparator: a stable sort.
RECURSIVE sortPdfs(_)
sortPdfs(rs) ==
    IF rs = <<>> THEN <<>>
    ELSE LET sorted == sortPdfs(SubSeq(rs, 1, Len(rs) - 1))
             item == rs[Len(rs)]
             keep == {i \in 1..Len(sorted) : pdfCompare(sorted[i], item) <= 0}
             n == IF keep = {} THEN 0 ELSE SetMax(keep)
         IN  SubSeq(sorted, 1, n) \o <<item>> \o SubSeq(sorted, n + 1, Len(sorted))

mapSet_append(map, item) == Append(map, item)

\* Map.prototype.set(item.path, item): the values of the map in insertion order; a key
\* that is already there keeps its place and takes the new value.
mapSet(map, item) ==
    IF \E i \in 1..Len(map) : map[i].path = item.path
    THEN [i \in 1..Len(map) |-> IF map[i].path = item.path THEN item ELSE map[i]]
    ELSE Append(map, item)

RECURSIVE mapSetAll(_, _)
mapSetAll(map, items) ==
    IF items = <<>> THEN map ELSE mapSetAll(mapSet(map, Head(items)), Tail(items))

\* formatError(error) of a rejected listing.
ListErrorMessage == "storage/unknown"

\* The loop of gatherPdfsFrom over the entries in the order their calls end.
RECURSIVE gatherEntries(_, _, _, _, _, _)
gatherEntries(ended, acc, objs, badList, metaFails, urlFails) ==
    IF ended = <<>> THEN acc
    ELSE LET res == collectAllPdfs(Head(ended), objs, badList, metaFails, urlFails)
             next == IF res.ok
                     THEN [acc EXCEPT !.map = mapSetAll(acc.map, res.rows)]
                     ELSE [acc EXCEPT !.errors = Append(acc.errors, ListErrorMessage)]
         IN  gatherEntries(Tail(ended), next, objs, badList, metaFails, urlFails)

\* gatherPdfsFrom(refs)
gatherPdfsFrom(refs, order, objs, badList, metaFails, urlFails) ==
    LET ended == [i \in 1..Len(refs) |-> refs[order[i]]]
        acc == gatherEntries(ended, [map |-> <<>>, errors |-> <<>>], objs, badList,
                             metaFails, urlFails)
    IN  [rows |-> sortPdfs(acc.map), errors |-> acc.errors]

\* The arrays of references given to gatherPdfsFrom: one root, roots that overlap,
\* roots that overlap next to one that does not.
RootLists == {<<<<>>>>, <<<<SegX>>, <<SegX, SegDpdf>>>>, <<<<SegX, SegDpdf>>, <<>>>>,
              <<<<SegX>>, <<SegX, SegDpdf>>, <<SegDpdf>>>>}
\* The folders whose listing rejects during a gatherPdfsFrom call.
GatherBadLists == {{}, {<<SegX>>}, {<<SegDpdf>>}}
Orders(n) == {o \in [1..n -> 1..n] : \A i, j \in 1..n : o[i] = o[j] => i = j}

NoGather == [done |-> FALSE, refs |-> <<>>, badList |-> {},
             res |-> [rows |-> <<>>, errors |-> <<>>]]

PdfIdle == bucket = {} /\ pdfRes = NoPdfCall /\ gathered = NoGather

\* an object is uploaded to the bucket
PutObject(path) ==
    /\ path \notin bucket
    /\ Cardinality(bucket) < MaxFiles
    /\ bucket' = bucket \cup {path}
    /\ pdfRes' = NoPdfCall
    /\ gathered' = NoGather
    /\ UNCHANGED othersPdf

\* one call of collectAllPdfs on a folder reference; the result of a call is kept
\* until the bucket changes, and a call is made when none is kept
CollectAllPdfs(base, badList, metaFails, urlFails) ==
    /\ ~pdfRes.done /\ ~gathered.done
    /\ pdfRes' = [done |-> TRUE, base |-> base,
                  res |-> collectAllPdfs(base, bucket, badList, metaFails, urlFails)]
    /\ gathered' = NoGather
    /\ UNCHANGED <<bucket, othersPdf>>

\* one call of gatherPdfsFrom on an array of folder references; order is the order
\* in which the collectAllPdfs calls of the entries end
GatherPdfsFrom(refs, order, badList, metaFails, urlFails) ==
    /\ ~pdfRes.done /\ ~gathered.done
    /\ gathered' = [done |-> TRUE, refs |-> refs, badList |-> badList,
                    res |-> gatherPdfsFrom(refs, order, bucket, badList, metaFails, urlFails)]
    /\ pdfRes' = NoPdfCall
    /\ UNCHANGED <<bucket, othersPdf>>


(***************************************************************************)
(* The pages.  One page is mounted at a time; its state is lost when the   *)
(* router shows another page.  A handler runs up to its await in one step  *)
(* (guards, flags, the request sent) and resumes in a second step when the *)
(* backend has answered, with success or with a rejection.                 *)
(***************************************************************************)
Pages == {"dashboard", "participants", "liens", "programme", "sponsors"}

NoReq == [op |-> "none", entity |-> "none", kind |-> "none"]
NoEnd == [op |-> "none", backend |-> FALSE, failed |-> FALSE]
Req(o, entity, kind) == [op |-> o, entity |-> entity, kind |-> kind]
Write(entity, kind) == [entity |-> entity, kind |-> kind]
Ended(o, failed) == [op |-> o, backend |-> TRUE, failed |-> failed]

UiIdle ==
    /\ authIsAdmin = FALSE /\ page = "dashboard" /\ partMode = "none" /\ dialog = "none"
    /\ busy = {} /\ shown = {} /\ inflight = NoReq /\ sent = {} /\ uncaught = {}
    /\ lastEnd = NoEnd

UiInit ==
    /\ authIsAdmin \in BOOLEAN /\ page = "dashboard" /\ partMode = "none" /\ dialog = "none"
    /\ busy = {} /\ shown = {} /\ inflight = NoReq /\ sent = {} /\ uncaught = {}
    /\ lastEnd = NoEnd

\* the router mounts another page; ParticipantsPage selects the first row when there is one
Navigate(target, hasRows) ==
    /\ target # page /\ inflight = NoReq
    /\ page' = target
    /\ partMode' = IF target = "participants" /\ hasRows THEN "selected" ELSE "none"
    /\ dialog' = "none" /\ busy' = {} /\ shown' = {} /\ lastEnd' = NoEnd
    /\ UNCHANGED <<authIsAdmin, inflight, sent, uncaught, othersUi>>

\* Dashboard.refresh up to its await
refresh ==
    /\ page = "dashboard" /\ inflight = NoReq
    /\ shown' = shown \ {"refresh"}
    /\ busy' = busy \cup {"refresh"}
    /\ inflight' = Req("refresh", "counts", "read")
    /\ lastEnd' = NoEnd
    /\ UNCHANGED <<authIsAdmin, page, partMode, dialog, sent, uncaught, othersUi>>

\* Dashboard.refresh after its await: catch displays the message, finally clears loading
refreshDone(ok) ==
    /\ inflight.op = "refresh"
    /\ shown' = IF ok THEN shown ELSE shown \cup {"refresh"}
    /\ busy' = busy \ {"refresh"}
    /\ inflight' = NoReq
    /\ lastEnd' = Ended("refresh", ~ok)
    /\ UNCHANGED <<authIsAdmin, page, partMode, dialog, sent, uncaught, othersUi>>

ParticipantOps == {"handleSave", "handleDelete"}

\* ParticipantsPage.handleSelectRow; the effect on selectedId resets actionState
handleSelectRow ==
    /\ page = "participants" /\ partMode # "selected"
    /\ partMode' = "selected"
    /\ busy' = busy \ ParticipantOps /\ shown' = shown \ ParticipantOps
    /\ lastEnd' = NoEnd
    /\ UNCHANGED <<authIsAdmin, page, dialog, inflight, sent, uncaught, othersUi>>

\* ParticipantsPage.handleStartCreate; the effect on isCreating resets actionState
handleStartCreate ==
    /\ page = "participants" /\ partMode # "creating"
    /\ partMode' = "creating"
    /\ busy' = busy \ ParticipantOps /\ shown' = shown \ ParticipantOps
    /\ lastEnd' = NoEnd
    /\ UNCHANGED <<authIsAdmin, page, dialog, inflight, sent, uncaught, othersUi>>

\* ParticipantsPage.handleSave up to its await; the page never reads isAdmin
handleSave ==
    /\ page = "participants" /\ inflight = NoReq
    /\ "handleSave" \notin busy
    /\ busy' = (busy \ ParticipantOps) \cup {"handleSave"}
    /\ shown' = shown \ ParticipantOps
    /\ IF partMode = "creating"
       THEN /\ inflight' = Req("handleSave", "participants", "create")
            /\ sent' = sent \cup {Write("participants", "create")}
            /\ lastEnd' = NoEnd
       ELSE IF partMode = "selected"
       THEN /\ inflight' = Req("handleSave", "participants", "update")
            /\ sent' = sent \cup {Write("participants", "update")}
            /\ lastEnd' = NoEnd
       ELSE /\ UNCHANGED <<inflight, sent>>
            /\ lastEnd' = [op |-> "handleSave", backend |-> FALSE, failed |-> FALSE]
    /\ UNCHANGED <<authIsAdmin, page, partMode, dialog, uncaught, othersUi>>

\* ParticipantsPage.handleSave after its await
handleSaveDone(ok) ==
    /\ inflight.op = "handleSave"
    /\ busy' = busy \ ParticipantOps
    /\ shown' = IF ok THEN shown \ ParticipantOps
                ELSE (shown \ ParticipantOps) \cup {"handleSave"}
    /\ partMode' = IF ok /\ inflight.kind = "create" THEN "selected" ELSE partMode
    /\ inflight' = NoReq
    /\ lastEnd' = Ended("handleSave", ~ok)
    /\ UNCHANGED <<authIsAdmin, page, dialog, sent, uncaught, othersUi>>

\* ParticipantsPage.handleDelete up to its await; the page never reads isAdmin
handleDelete(confirmDelete) ==
    /\ page = "participants" /\ inflight = NoReq
    /\ partMode = "selected"
    /\ busy \cap ParticipantOps = {}
    /\ confirmDelete
    /\ busy' = busy \cup {"handleDelete"}
    /\ shown' = shown \ ParticipantOps
    /\ inflight' = Req("handleDelete", "participants", "delete")
    /\ sent' = sent \cup {Write("participants", "delete")}
    /\ lastEnd' = NoEnd
    /\ UNCHANGED <<authIsAdmin, page, partMode, dialog, uncaught, othersUi>>

\* ParticipantsPage.handleDelete after its await
handleDeleteDone(ok) ==
    /\ inflight.op = "handleDelete"
    /\ busy' = busy \ ParticipantOps
    /\ shown' = IF ok THEN shown \ ParticipantOps
                ELSE (shown \ ParticipantOps) \cup {"handleDelete"}
    /\ partMode' = IF ok THEN "none" ELSE partMode
    /\ inflight' = NoReq
    /\ lastEnd' = Ended("handleDelete", ~ok)
    /\ UNCHANGED <<authIsAdmin, page, dialog, sent, uncaught, othersUi>>

\* LinksPage: '+ Ajouter un lien' and the edit button, rendered for admins only
openLinkModal ==
    /\ page = "liens" /\ authIsAdmin /\ dialog = "none"
    /\ dialog' = "form"
    /\ busy' = busy \ {"LinkModal.onSubmit"} /\ shown' = shown \ {"LinkModal.onSubmit"}
    /\ lastEnd' = NoEnd
    /\ UNCHANGED <<authIsAdmin, page, partMode, inflight, sent, uncaught, othersUi>>

\* LinkModal.onSubmit up to its await
LinkModal_onSubmit(valid, isEdit) ==
    /\ page = "liens" /\ dialog = "form" /\ inflight = NoReq
    /\ IF ~authIsAdmin
       THEN /\ shown' = shown \cup {"LinkModal.onSubmit"}
            /\ UNCHANGED <<busy, inflight, sent>>
       ELSE IF ~valid
       THEN /\ shown' = shown \cup {"LinkModal.onSubmit"}
            /\ UNCHANGED <<busy, inflight, sent>>
       ELSE /\ busy' = busy \cup {"LinkModal.onSubmit"}
            /\ shown' = shown \ {"LinkModal.onSubmit"}
            /\ inflight' = Req("LinkModal.onSubmit", "liens", IF isEdit THEN "update" ELSE "create")
            /\ sent' = sent \cup {Write("liens", IF isEdit THEN "update" ELSE "create")}
    /\ lastEnd' = NoEnd
    /\ UNCHANGED <<authIsAdmin, page, partMode, dialog, uncaught, othersUi>>

\* LinkModal.onSubmit after its await: catch displays the message, finally clears the flag
LinkModal_onSubmitDone(ok) ==
    /\ inflight.op = "LinkModal.onSubmit"
    /\ dialog' = IF ok THEN "none" ELSE dialog
    /\ shown' = IF ok THEN shown ELSE shown \cup {"LinkModal.onSubmit"}
    /\ busy' = busy \ {"LinkModal.onSubmit"}
    /\ inflight' = NoReq
    /\ lastEnd' = Ended("LinkModal.onSubmit", ~ok)
    /\ UNCHANGED <<authIsAdmin, page, partMode, sent, uncaught, othersUi>>

\* LinksPage: the delete button, rendered for admins only
askDeleteLink ==
    /\ page = "liens" /\ authIsAdmin /\ dialog = "none"
    /\ dialog' = "confirm"
    /\ lastEnd' = NoEnd
    /\ UNCHANGED <<authIsAdmin, page, partMode, busy, shown, inflight, sent, uncaught, othersUi>>

\* LinksPage Confirm.onConfirm (deleteLink) up to its await; the handler has no try / catch
LinksPage_onConfirm ==
    /\ page = "liens" /\ dialog = "confirm" /\ inflight = NoReq
    /\ inflight' = Req("LinksPage.onConfirm", "liens", "delete")
    /\ sent' = sent \cup {Write("liens", "delete")}
    /\ lastEnd' = NoEnd
    /\ UNCHANGED <<authIsAdmin, page, partMode, dialog, busy, shown, uncaught, othersUi>>

\* LinksPage Confirm.onConfirm (deleteLink) after its await: the dialog closes on success; a rejection
\* leaves the handler's promise rejected with nobody to handle it
LinksPage_onConfirmDone(ok) ==
    /\ inflight.op = "LinksPage.onConfirm"
    /\ dialog' = IF ok THEN "none" ELSE dialog
    /\ uncaught' = IF ok THEN uncaught ELSE uncaught \cup {"LinksPage.onConfirm"}
    /\ inflight' = NoReq
    /\ lastEnd' = Ended("LinksPage.onConfirm", ~ok)
    /\ UNCHANGED <<authIsAdmin, page, partMode, busy, shown, sent, othersUi>>

\* ProgrammePage.openCreateSession / openEditSession, buttons rendered for admins only
openCreateSession ==
    /\ page = "programme" /\ authIsAdmin /\ dialog = "none"
    /\ dialog' = "form"
    /\ busy' = busy \ {"SessionModal.handleSubmit"} /\ shown' = shown \ {"SessionModal.handleSubmit"}
    /\ lastEnd' = NoEnd
    /\ UNCHANGED <<authIsAdmin, page, partMode, inflight, sent, uncaught, othersUi>>

\* SessionModal.handleSubmit up to its await
SessionModal_handleSubmit(isFormValid, isEdit) ==
    /\ page = "programme" /\ dialog = "form" /\ inflight = NoReq
    /\ IF ~isFormValid
       THEN /\ shown' = shown \cup {"SessionModal.handleSubmit"}
            /\ UNCHANGED <<busy, inflight, sent>>
       ELSE /\ busy' = busy \cup {"SessionModal.handleSubmit"}
            /\ shown' = shown \ {"SessionModal.handleSubmit"}
            /\ inflight' = Req("SessionModal.handleSubmit", "sessions", IF isEdit THEN "update" ELSE "create")
            /\ sent' = sent \cup {Write("sessions", IF isEdit THEN "update" ELSE "create")}
    /\ lastEnd' = NoEnd
    /\ UNCHANGED <<authIsAdmin, page, partMode, dialog, uncaught, othersUi>>

\* SessionModal.handleSubmit after its await: catch displays the message, finally clears the flag
SessionModal_handleSubmitDone(ok) ==
    /\ inflight.op = "SessionModal.handleSubmit"
    /\ dialog' = IF ok THEN "none" ELSE dialog
    /\ shown' = IF ok THEN shown ELSE shown \cup {"SessionModal.handleSubmit"}
    /\ busy' = busy \ {"SessionModal.handleSubmit"}
    /\ inflight' = NoReq
    /\ lastEnd' = Ended("SessionModal.handleSubmit", ~ok)
    /\ UNCHANGED <<authIsAdmin, page, partMode, sent, uncaught, othersUi>>

\* ProgrammePage.askDeleteSession, button rendered when canEdit
askDeleteSession ==
    /\ page = "programme" /\ authIsAdmin /\ dialog = "none"
    /\ dialog' = "confirm"
    /\ lastEnd' = NoEnd
    /\ UNCHANGED <<authIsAdmin, page, partMode, busy, shown, inflight, sent, uncaught, othersUi>>

\* ProgrammePage ConfirmDialog.onConfirm (deleteSessionCascade) up to its await; the handler has no try / catch
ProgrammePage_onConfirm ==
    /\ page = "programme" /\ dialog = "confirm" /\ inflight = NoReq
    /\ inflight' = Req("ProgrammePage.onConfirm", "sessions", "delete")
    /\ sent' = sent \cup {Write("sessions", "delete")}
    /\ lastEnd' = NoEnd
    /\ UNCHANGED <<authIsAdmin, page, partMode, dialog, busy, shown, uncaught, othersUi>>

\* ProgrammePage ConfirmDialog.onConfirm (deleteSessionCascade) after its await: the dialog closes on success; a rejection
\* leaves the handler's promise rejected with nobody to handle it
ProgrammePage_onConfirmDone(ok) ==
    /\ inflight.op = "ProgrammePage.onConfirm"
    /\ dialog' = IF ok THEN "none" ELSE dialog
    /\ uncaught' = IF ok THEN uncaught ELSE uncaught \cup {"ProgrammePage.onConfirm"}
    /\ inflight' = NoReq
    /\ lastEnd' = Ended("ProgrammePage.onConfirm", ~ok)
    /\ UNCHANGED <<authIsAdmin, page, partMode, busy, shown, sent, othersUi>>

\* SponsorsPage: '+ Ajouter un sponsor' and the edit button, rendered for admins only
openSponsorModal ==
    /\ page = "sponsors" /\ authIsAdmin /\ dialog = "none"
    /\ dialog' = "form"
    /\ busy' = busy \ {"SponsorModal.handleSubmit"} /\ shown' = shown \ {"SponsorModal.handleSubmit"}
    /\ lastEnd' = NoEnd
    /\ UNCHANGED <<authIsAdmin, page, partMode, inflight, sent, uncaught, othersUi>>

\* SponsorModal.handleSubmit with handleSaveSponsor up to its await
SponsorModal_handleSubmit(valid) ==
    /\ page = "sponsors" /\ dialog = "form" /\ inflight = NoReq
    /\ IF ~authIsAdmin
       THEN /\ shown' = shown \cup {"SponsorModal.handleSubmit"}
            /\ UNCHANGED <<busy, inflight, sent>>
       ELSE IF ~valid
       THEN /\ shown' = shown \cup {"SponsorModal.handleSubmit"}
            /\ UNCHANGED <<busy, inflight, sent>>
       ELSE /\ busy' = busy \cup {"SponsorModal.handleSubmit"}
            /\ shown' = shown \ {"SponsorModal.handleSubmit"}
            /\ inflight' = Req("SponsorModal.handleSubmit", "sponsors", "update")
            /\ sent' = sent \cup {Write("sponsors", "update")}
    /\ lastEnd' = NoEnd
    /\ UNCHANGED <<authIsAdmin, page, partMode, dialog, uncaught, othersUi>>

\* SponsorModal.handleSubmit with handleSaveSponsor after its await: catch displays the message, finally clears the flag
SponsorModal_handleSubmitDone(ok) ==
    /\ inflight.op = "SponsorModal.handleSubmit"
    /\ dialog' = IF ok THEN "none" ELSE dialog
    /\ shown' = IF ok THEN shown ELSE shown \cup {"SponsorModal.handleSubmit"}
    /\ busy' = busy \ {"SponsorModal.handleSubmit"}
    /\ inflight' = NoReq
    /\ lastEnd' = Ended("SponsorModal.handleSubmit", ~ok)
    /\ UNCHANGED <<authIsAdmin, page, partMode, sent, uncaught, othersUi>>

\* onCancel / onClose of the open modal
onCancel ==
    /\ dialog # "none"
    /\ dialog' = "none"
    /\ lastEnd' = NoEnd
    /\ UNCHANGED <<authIsAdmin, page, partMode, busy, shown, inflight, sent, uncaught, othersUi>>


(***************************************************************************)
(* File utilities (lib/files.ts): isImage, isPdf, formatBytes              *)
(*                                                                         *)
(* A JavaScript value is a record: t is its type, n its number, s its      *)
(* string.  Sizes are integers; bytes / 1024 and bytes / 1024 / 1024 are   *)
(* exact in binary floating point, so Math.round and toFixed(1) act on     *)
(* the exact quotient.                                                     *)
(***************************************************************************)
Undefined == [t |-> "undefined", n |-> 0, s |-> <<>>]
Null      == [t |-> "null", n |-> 0, s |-> <<>>]
Num(n)    == [t |-> "number", n |-> n, s |-> <<>>]
Str(s)    == [t |-> "string", n |-> 0, s |-> s]

DigitChars == <<"0", "1", "2", "3", "4", "5", "6", "7", "8", "9">>

\* the decimal form of a natural number
RECURSIVE NatToString(_)
NatToString(n) ==
    IF n < 10 THEN <<DigitChars[n + 1]>>
    ELSE NatToString(n \div 10) \o <<DigitChars[(n % 10) + 1]>>

\* `${bytes}` for an integer
NumberToString(n) == IF n < 0 THEN <<"-">> \o NatToString(-n) ELSE NatToString(n)

\* String.prototype.startsWith
startsWith(s, prefix) == IsPrefix(prefix, s)

ImageSlash == <<"i", "m", "a", "g", "e", "/">>
ApplicationPdf == <<"a", "p", "p", "l", "i", "c", "a", "t", "i", "o", "n", "/", "p", "d", "f">>

\* mutant: the slash is missing from the prefix
isImage_noSlash(contentType) ==
    /\ contentType.t = "string" /\ contentType.s # <<>>
    /\ startsWith(contentType.s, <<"i", "m", "a", "g", "e">>)

\* isImage: !!contentType && contentType.startsWith('image/')
isImage(contentType) ==
    /\ contentType.t = "string" /\ contentType.s # <<>>
    /\ startsWith(contentType.s, ImageSlash)

\* mutant: a prefix test instead of the equality
isPdf_startsWith(contentType) ==
    contentType.t = "string" /\ startsWith(contentType.s, ApplicationPdf)

\* isPdf: contentType === 'application/pdf'
isPdf(contentType) == contentType.t = "string" /\ contentType.s = ApplicationPdf

Kilo == 1024
Mega == 1048576

\* Math.round(x / 1024) for x >= 0: the nearest integer, a half rounds up
MathRoundKilo(x) == (2 * x + Kilo) \div (2 * Kilo)

\* (x / 1024 / 1024).toFixed(1) for x >= 0: the nearest tenth, a half rounds up
toFixed1Mega(x) ==
    LET tenths == (20 * x + Mega) \div (2 * Mega)
    IN  NatToString(tenths \div 10) \o <<".">> \o <<DigitChars[(tenths % 10) + 1]>>

\* mutant: the kilobyte count is truncated instead of rounded
formatBytes_floor(bytes) ==
    IF bytes.t \in {"undefined", "null"} THEN <<>>
    ELSE IF bytes.n < Kilo THEN NumberToString(bytes.n) \o <<" ", "o">>
    ELSE IF bytes.n < Kilo * Kilo THEN NatToString(bytes.n \div Kilo) \o <<" ", "K", "o">>
    ELSE toFixed1Mega(bytes.n) \o <<" ", "M", "o">>

\* formatBytes
formatBytes(bytes) ==
    IF bytes.t \in {"undefined", "null"} THEN <<>>
    ELSE IF bytes.n < Kilo THEN NumberToString(bytes.n) \o <<" ", "o">>
    ELSE IF bytes.n < Kilo * Kilo THEN NatToString(MathRoundKilo(bytes.n)) \o <<" ", "K", "o">>
    ELSE toFixed1Mega(bytes.n) \o <<" ", "M", "o">>

\* the sizes tried: every integer within ByteWindow of a pivot
ByteWindow == 2
BytePivots == {0, 999, 1024, 1536, 2048, 1048064, 1048576, 1310720, 5242880}
ByteSizes == {b + d : b \in BytePivots, d \in (-ByteWindow)..ByteWindow}

ContentTypes ==
    {<<"i", "m", "a", "g", "e", "/", "p", "n", "g">>,
     <<"i", "m", "a", "g", "e", "/", "j", "p", "e", "g">>,
     <<"i", "m", "a", "g", "e", "/">>,
     <<"i", "m", "a", "g", "e">>,
     <<"I", "m", "a", "g", "e", "/", "p", "n", "g">>,
     <<"i", "m", "a", "g", "e", "x", "/", "p", "n", "g">>,
     <<" ", "i", "m", "a", "g", "e", "/", "p", "n", "g">>,
     <<"x", "-", "i", "m", "a", "g", "e", "/", "p", "n", "g">>,
     <<"a", "p", "p", "l", "i", "c", "a", "t", "i", "o", "n", "/", "p", "d", "f">>,
     <<"a", "p", "p", "l", "i", "c", "a", "t", "i", "o", "n", "/", "p", "d", "f", " ">>,
     <<"A", "p", "p", "l", "i", "c", "a", "t", "i", "o", "n", "/", "P", "D", "F">>,
     <<"a", "p", "p", "l", "i", "c", "a", "t", "i", "o", "n", "/", "p", "d", "f", "x">>,
     <<"a", "p", "p", "l", "i", "c", "a", "t", "i", "o", "n", "/", "p", "d">>,
     <<>>,
     <<"t", "e", "x", "t", "/", "p", "l", "a", "i", "n">>}

FileArgs == {Undefined, Null} \cup {Num(n) : n \in ByteSizes} \cup {Str(s) : s \in ContentTypes}

NoFileCall == [fn |-> "none", str |-> <<>>, bool |-> FALSE]

FilesIdle == fArg = Undefined /\ fRes = NoFileCall

FilesInit == fArg \in FileArgs /\ fRes = NoFileCall

CallIsImage ==
    /\ fArg.t # "number"
    /\ fRes' = [fn |-> "isImage", str |-> <<>>, bool |-> isImage(fArg)]
    /\ UNCHANGED <<fArg, othersFiles>>

CallIsPdf ==
    /\ fArg.t # "number"
    /\ fRes' = [fn |-> "isPdf", str |-> <<>>, bool |-> isPdf(fArg)]
    /\ UNCHANGED <<fArg, othersFiles>>

CallFormatBytes ==
    /\ fArg.t # "string"
    /\ fRes' = [fn |-> "formatBytes", str |-> formatBytes(fArg), bool |-> FALSE]
    /\ UNCHANGED <<fArg, othersFiles>>

(***************************************************************************)
(* Sponsors page (SponsorsPage): the sponsors of a congress are one array  *)
(* field, listSponsors, of the congress document.  Each client holds the   *)
(* document as of its last snapshot (or its own last write) in its state   *)
(* `congres`; every handler builds the whole new array from that state and *)
(* hands it to updateCongres, which overwrites the field.  An entry keeps  *)
(* its id, its title and its banner flag; the other fields of a sponsor    *)
(* are carried along in the same way and are left out.  A client that is   *)
(* not an admin is "viewer": its handlers stop at the isAdmin check, so    *)
(* its congres state is read by no handler and is not kept.                *)
(***************************************************************************)
SponAdmins == {"adminA", "adminB"}
SponClients == SponAdmins \cup {"viewer"}
\* Titles a form can give; an entry also changes through its banner flag.
Titles == {"t1"}
\* How many new sponsors get an id from Date.now().
MaxSponsors == 2

NoCongres == [loaded |-> FALSE, listSponsors |-> <<>>]
NoSponWrite == [kind |-> "none", list |-> <<>>, target |-> 0]
NoSponLog == [kind |-> "none", by |-> "none", target |-> 0, before |-> <<>>, after |-> <<>>]

\* congres?.listSponsors ?? []
currentSponsors(c) == IF c.loaded THEN c.listSponsors ELSE <<>>

\* index >= 0 && index < current.length, with element index of JavaScript at index + 1 here.
inRange(index, current) == index >= 0 /\ index < Len(current)

\* The array handleSaveSponsor writes: the entry at index replaced, or a new entry pushed.
\* payload.id is the id of the entry being edited, so baseId is that id or sponsor_<Date.now()>.
saveSponsors(current, payload, index, dateNow) ==
    LET nextItem == [id |-> IF inRange(index, current) THEN current[index + 1].id ELSE dateNow,
                     title |-> payload.title,
                     affichageBandeau |-> payload.affichageBandeau]
    IN  IF inRange(index, current)
        THEN [current EXCEPT ![index + 1] = nextItem]
        ELSE Append(current, nextItem)

\* current.splice(item._index, 1)
deleteSponsors(current, index) ==
    SubSeq(current, 1, index) \o SubSeq(current, index + 2, Len(current))

\* The array handleToggleBanner writes: the flag of the entry at index negated.
toggleSponsors(current, index) ==
    [current EXCEPT ![index + 1].affichageBandeau = ~@]

SponIdle ==
    /\ listSponsors = <<>>
    /\ congres = [c \in SponAdmins |-> NoCongres]
    /\ sponPending = [c \in SponAdmins |-> NoSponWrite]
    /\ sponClock = 1
    /\ sponLog = NoSponLog

\* watchCongres delivers the stored document to a client: setCongres(data).
watchCongres_cb(c) ==
    /\ congres[c] # [loaded |-> TRUE, listSponsors |-> listSponsors]
    /\ congres' = [congres EXCEPT ![c] = [loaded |-> TRUE, listSponsors |-> listSponsors]]
    /\ sponLog' = NoSponLog
    /\ UNCHANGED <<listSponsors, sponPending, sponClock, othersSpon>>

SponThrows(c, kind) ==
    /\ sponLog' = [NoSponLog EXCEPT !.kind = kind, !.by = c]
    /\ UNCHANGED <<listSponsors, congres, sponPending, sponClock, othersSpon>>

SponSends(c, kind, list, target) ==
    /\ sponPending' = [sponPending EXCEPT ![c] = [kind |-> kind, list |-> list, target |-> target]]
    /\ sponLog' = NoSponLog
    /\ UNCHANGED <<listSponsors, congres, othersSpon>>

\* handleSaveSponsor up to its await of updateCongres; index -1 stands for null.
handleSaveSponsor(c, payload, index) ==
    IF c \notin SponAdmins
    THEN SponThrows(c, "thrown")
    ELSE LET current == currentSponsors(congres[c])
             list == saveSponsors(current, payload, index, sponClock)
             target == IF inRange(index, current) THEN current[index + 1].id ELSE sponClock
         IN  /\ sponPending[c].kind = "none"
             /\ inRange(index, current) \/ sponClock <= MaxSponsors
             /\ sponClock' = IF inRange(index, current) THEN sponClock ELSE sponClock + 1
             /\ SponSends(c, "save", list, target)

\* handleDeleteSponsor up to its await of updateCongres.
handleDeleteSponsor(c, index) ==
    IF c \notin SponAdmins
    THEN SponThrows(c, "thrown")
    ELSE LET current == currentSponsors(congres[c])
         IN  /\ sponPending[c].kind = "none"
             /\ IF ~inRange(index, current)
                THEN SponThrows(c, "thrown")
                ELSE /\ SponSends(c, "delete", deleteSponsors(current, index), current[index + 1].id)
                     /\ UNCHANGED sponClock

\* handleToggleBanner up to its await of updateCongres.
handleToggleBanner(c, index) ==
    IF c \notin SponAdmins
    THEN SponThrows(c, "returned")
    ELSE LET current == currentSponsors(congres[c])
         IN  /\ sponPending[c].kind = "none"
             /\ IF ~inRange(index, current)
                THEN SponThrows(c, "returned")
                ELSE /\ SponSends(c, "toggle", toggleSponsors(current, index), current[index + 1].id)
                     /\ UNCHANGED sponClock

\* updateCongres(congresId, {listSponsors: sanitized}) ends: the field is overwritten and
\* the handler continues with setCongres(prev => prev ? {...prev, listSponsors} : prev),
\* or the write is rejected and the handler reports the error.
updateCongres(c, ok) ==
    LET w == sponPending[c]
    IN  /\ w.kind # "none"
        /\ sponPending' = [sponPending EXCEPT ![c] = NoSponWrite]
        /\ IF ok
           THEN /\ listSponsors' = w.list
                /\ congres' = [congres EXCEPT ![c] =
                                  IF @.loaded THEN [@ EXCEPT !.listSponsors = w.list] ELSE @]
                /\ sponLog' = [kind |-> w.kind, by |-> c, target |-> w.target,
                               before |-> listSponsors, after |-> w.list]
           ELSE /\ sponLog' = [NoSponLog EXCEPT !.kind = "rejected", !.by = c]
                /\ UNCHANGED <<listSponsors, congres>>
        /\ UNCHANGED <<sponClock, othersSpon>>

(***************************************************************************)
(* AuthProvider, ProtectedRoute and the routes of App.  onAuthStateChanged *)
(* calls the provider's async callback once per auth-state change; the     *)
(* callback sets loading and user at once and, for a signed-in user, waits *)
(* for getIdTokenResult (and possibly for a forced second lookup) before   *)
(* it sets isAdmin and clears loading.  Callbacks of successive changes    *)
(* wait independently, so their lookups end in any order.  The router      *)
(* renders again after every change of the provider's state.               *)
(***************************************************************************)
AuthUsers == {"alice", "bob"}
\* token.claims.admin of each user: alice has the claim, bob's token has none.
adminClaim(u) == IF u = "alice" THEN "true" ELSE "undefined"
\* How many auth-state changes are delivered.
MaxAuthEvents == 3

SignInPath == "/signin"
ProtectedPaths == {"/", "/sponsors"}
Paths == {SignInPath, "/nowhere"} \cup ProtectedPaths

ProtectedRoute_noUserCheck(loading, user) ==
    IF loading THEN "placeholder" ELSE "children"

\* ProtectedRoute: the placeholder while loading, <Navigate to="/signin"> without a
\* user, its children otherwise.
ProtectedRoute(loading, user) ==
    IF loading THEN "placeholder"
    ELSE IF user = NoUser THEN "redirect"
    ELSE "children"

\* What the routes of App show at path loc, redirects followed: an unknown path goes
\* to "/", SignIn goes to "/" when there is a user, every other path is a child of
\* the protected route.
Routes(loc, loading, user) ==
    LET known == IF loc \in Paths \ {"/nowhere"} THEN loc ELSE "/"
        path == IF known = SignInPath /\ user # NoUser THEN "/" ELSE known
        guard == ProtectedRoute(loading, user)
    IN  IF path = SignInPath
        THEN [location |-> SignInPath, rendered |-> "SignIn", redirect |-> "none"]
        ELSE IF guard = "placeholder"
        THEN [location |-> path, rendered |-> "placeholder",
              redirect |-> IF path = loc THEN "none" ELSE "toRoot"]
        ELSE IF guard = "redirect"
        THEN [location |-> SignInPath, rendered |-> "SignIn", redirect |-> "toSignIn"]
        ELSE [location |-> path, rendered |-> path,
              redirect |-> IF path = loc THEN "none" ELSE "toRoot"]

Render(loc, loading, user) ==
    LET r == Routes(loc, loading, user)
    IN  /\ location' = r.location
        /\ rendered' = r.rendered
        /\ lastRedirect' = r.redirect

AuthIdle ==
    /\ fbUser = NoUser
    /\ provUser = NoUser
    /\ provIsAdmin = FALSE
    /\ provLoading = TRUE
    /\ lastAdminClaimRef = "null"
    /\ lastSignInTimeRef = 0
    /\ lookups = {}
    /\ authEvents = 0
    /\ claimOf = NoUser
    /\ location = "/"
    /\ rendered = "placeholder"
    /\ lastRedirect = "none"

\* The browser opens the application at any path; the provider starts loading.
AuthInit ==
    /\ fbUser = NoUser
    /\ provUser = NoUser
    /\ provIsAdmin = FALSE
    /\ provLoading = TRUE
    /\ lastAdminClaimRef = "null"
    /\ lastSignInTimeRef = 0
    /\ lookups = {}
    /\ authEvents = 0
    /\ claimOf = NoUser
    /\ \E loc \in Paths :
          LET r == Routes(loc, TRUE, NoUser)
          IN  location = r.location /\ rendered = r.rendered /\ lastRedirect = r.redirect

\* onAuthStateChanged delivers currentUser: the callback up to its first await.  The
\* sign-in time of a new sign-in is the number of the event (0 stands for null).
onAuthStateChanged(currentUser) ==
    /\ authEvents < MaxAuthEvents
    /\ authEvents = 0 \/ currentUser # fbUser
    /\ authEvents' = authEvents + 1
    /\ fbUser' = currentUser
    /\ provUser' = currentUser
    /\ IF currentUser = NoUser
       THEN /\ lastAdminClaimRef' = "null"
            /\ lastSignInTimeRef' = 0
            /\ provIsAdmin' = FALSE
            /\ claimOf' = NoUser
            /\ provLoading' = FALSE
            /\ UNCHANGED lookups
            /\ Render(location, FALSE, currentUser)
       ELSE /\ lookups' = lookups \cup
                   {[id |-> authEvents + 1, user |-> currentUser,
                     currentSignInTime |-> authEvents + 1,
                     signInChanged |-> lastSignInTimeRef # 0
                                        /\ authEvents + 1 # lastSignInTimeRef,
                     forced |-> FALSE]}
            /\ provLoading' = TRUE
            /\ UNCHANGED <<lastAdminClaimRef, lastSignInTimeRef, provIsAdmin, claimOf>>
            /\ Render(location, TRUE, currentUser)
    /\ UNCHANGED othersAuth

\* The end of the callback of lookup k with the flag read from its user's token.
AuthSettled(k, adminFlag) ==
    /\ lookups' = lookups \ {k}
    /\ lastAdminClaimRef' = IF adminFlag THEN "true" ELSE "false"
    /\ lastSignInTimeRef' = k.currentSignInTime
    /\ provIsAdmin' = adminFlag
    /\ claimOf' = k.user
    /\ provLoading' = FALSE
    /\ Render(location, FALSE, provUser)
    /\ UNCHANGED <<fbUser, provUser, authEvents, othersAuth>>

\* The catch and finally blocks of the callback of lookup k.
AuthFailed(k) ==
    /\ lookups' = lookups \ {k}
    /\ lastAdminClaimRef' = "null"
    /\ lastSignInTimeRef' = 0
    /\ provIsAdmin' = FALSE
    /\ claimOf' = NoUser
    /\ provLoading' = FALSE
    /\ Render(location, FALSE, provUser)
    /\ UNCHANGED <<fbUser, provUser, authEvents, othersAuth>>

\* getIdTokenResult(currentUser) of lookup k ends: the callback goes on to the forced
\* lookup when the claim is missing or changed or the sign-in time changed, and to its
\* end otherwise.
getIdTokenResult(k, ok) ==
    /\ k \in lookups
    /\ ~k.forced
    /\ IF ~ok
       THEN AuthFailed(k)
       ELSE LET adminFlag == adminClaim(k.user) = "true"
                claimMissing == adminClaim(k.user) = "undefined"
                claimChanged == lastAdminClaimRef # "null"
                                   /\ adminFlag # (lastAdminClaimRef = "true")
            IN  IF claimMissing \/ claimChanged \/ k.signInChanged
                THEN /\ lookups' = (lookups \ {k}) \cup {[k EXCEPT !.forced = TRUE]}
                     /\ UNCHANGED <<fbUser, provUser, provIsAdmin, provLoading,
                                    lastAdminClaimRef, lastSignInTimeRef, authEvents,
                                    claimOf, location, rendered, lastRedirect, othersAuth>>
                ELSE AuthSettled(k, adminFlag)

\* getIdTokenResult(currentUser, true) of lookup k ends.
getIdTokenResult_forced(k, ok) ==
    /\ k \in lookups
    /\ k.forced
    /\ IF ok THEN AuthSettled(k, adminClaim(k.user) = "true") ELSE AuthFailed(k)

\* The user opens a path of the application.
OpenPath(loc) ==
    /\ loc # location
    /\ Render(loc, provLoading, provUser)
    /\ UNCHANGED <<fbUser, provUser, provIsAdmin, provLoading, lastAdminClaimRef,
                   lastSignInTimeRef, lookups, authEvents, claimOf, othersAuth>>

(***************************************************************************)
(* Live lists: useParticipantsData (ParticipantsPage) and                  *)
(* NotificationsPanel (ConfigApp) subscribe in an effect that depends on   *)
(* the congress id and cancel in its cleanup.  A snapshot event is queued  *)
(* by the backend client for a listener and handed to its callback later;  *)
(* the client hands nothing to a listener that was cancelled.  The rows of *)
(* a page are kept as the congress they were delivered for.  Both pages    *)
(* get a congress id that is never empty (DEFAULT_CONGRES_ID, or           *)
(* getCurrentCongresId, which falls back to it).                           *)
(***************************************************************************)
SubPages == {"participants", "notifications"}
CongresIds == {"c1", "c2"}
DEFAULT_CONGRES_ID == "c1"
NoRows == "none"
\* How many listeners are registered in a behaviour.
MaxListeners == 3

NoSubLog == [kind |-> "none", page |-> "none", dataOf |-> "none"]

listenersOf(ls, p) == {l \in ls : l.page = p}

unsubscribe_leak(ls, p) == ls

\* The cleanup's unsubscribe(): the listener registered by the page's effect is cancelled.
unsubscribe(ls, p) == ls \ listenersOf(ls, p)

\* watchParticipants / watchNotifications: onSnapshot registers a listener on the
\* collection of congresId.
onSnapshot(ls, p, congresId, id) == ls \cup {[id |-> id, page |-> p, congres |-> congresId]}

\* The rows after the cleanup of a page's effect: NotificationsPanel runs setRows([]).
rowsAfterCleanup(p, r) == IF p = "notifications" THEN NoRows ELSE r

SubIdle ==
    /\ subMounted = [p \in SubPages |-> FALSE]
    /\ subCongres = [p \in SubPages |-> DEFAULT_CONGRES_ID]
    /\ listeners = {}
    /\ snapsQueued = {}
    /\ subRows = [p \in SubPages |-> NoRows]
    /\ subLoading = [p \in SubPages |-> TRUE]
    /\ nextListener = 1
    /\ subLog = NoSubLog

\* The page mounts: useState initial values, then the effect subscribes.
\* ParticipantsPage starts at DEFAULT_CONGRES_ID, NotificationsPanel at its prop.
SubMount(p, congresId) ==
    /\ ~subMounted[p]
    /\ nextListener <= MaxListeners
    /\ p = "participants" => congresId = DEFAULT_CONGRES_ID
    /\ subMounted' = [subMounted EXCEPT ![p] = TRUE]
    /\ subCongres' = [subCongres EXCEPT ![p] = congresId]
    /\ subRows' = [subRows EXCEPT ![p] = NoRows]
    /\ subLoading' = [subLoading EXCEPT ![p] = TRUE]
    /\ listeners' = onSnapshot(listeners, p, congresId, nextListener)
    /\ nextListener' = nextListener + 1
    /\ subLog' = NoSubLog
    /\ UNCHANGED <<snapsQueued, othersSub>>

\* The congress id of a mounted page changes: the cleanup of the previous effect runs,
\* then the effect runs again with the new id.
SubChangeCongres(p, congresId) ==
    /\ subMounted[p]
    /\ congresId # subCongres[p]
    /\ nextListener <= MaxListeners
    /\ subCongres' = [subCongres EXCEPT ![p] = congresId]
    /\ subRows' = [subRows EXCEPT ![p] = rowsAfterCleanup(p, @)]
    /\ subLoading' = [subLoading EXCEPT ![p] = TRUE]
    /\ listeners' = onSnapshot(unsubscribe(listeners, p), p, congresId, nextListener)
    /\ nextListener' = nextListener + 1
    /\ subLog' = [kind |-> "cleanup", page |-> p, dataOf |-> "none"]
    /\ UNCHANGED <<subMounted, snapsQueued, othersSub>>

\* The page unmounts: the cleanup runs and the component's state is gone.
SubUnmount(p) ==
    /\ subMounted[p]
    /\ subMounted' = [subMounted EXCEPT ![p] = FALSE]
    /\ listeners' = unsubscribe(listeners, p)
    /\ subRows' = [subRows EXCEPT ![p] = NoRows]
    /\ subLoading' = [subLoading EXCEPT ![p] = TRUE]
    /\ subLog' = [kind |-> "cleanup", page |-> p, dataOf |-> "none"]
    /\ UNCHANGED <<subCongres, snapsQueued, nextListener, othersSub>>

\* The backend client queues a snapshot event (the first one or a change) for a listener.
SnapshotQueued(l) ==
    /\ l \in listeners
    /\ l \notin snapsQueued
    /\ snapsQueued' = snapsQueued \cup {l}
    /\ subLog' = NoSubLog
    /\ UNCHANGED <<subMounted, subCongres, listeners, subRows, subLoading, nextListener, othersSub>>

\* A queued event reaches its listener: the callback runs setRows and setLoading(false),
\* unless the listener was cancelled in between.
SnapshotDelivered(l) ==
    /\ l \in snapsQueued
    /\ snapsQueued' = snapsQueued \ {l}
    /\ IF l \in listeners
       THEN /\ subRows' = [subRows EXCEPT ![l.page] = l.congres]
            /\ subLoading' = [subLoading EXCEPT ![l.page] = FALSE]
            /\ subLog' = [kind |-> "cb", page |-> l.page, dataOf |-> l.congres]
       ELSE /\ subLog' = [kind |-> "dropped", page |-> l.page, dataOf |-> l.congres]
            /\ UNCHANGED <<subRows, subLoading>>
    /\ UNCHANGED <<subMounted, subCongres, listeners, nextListener, othersSub>>

(***************************************************************************)
(* Pagination of the participants list.  The list is paginated twice in    *)
(* the sources, by ParticipantsPage.tsx and by an earlier page of the same *)
(* name ("legacy" below); both compute total, pages, pageSafe, start and   *)
(* the rows shown at every render from the page state and the filtered     *)
(* list.  The rows delivered are participants 1..n in id order; every      *)
(* third one is an admin.  Effects run after the render that scheduled     *)
(* them and before the next event.                                         *)
(***************************************************************************)
PAGE_SIZE == 25
\* How many participants a snapshot can hold.
MaxRows == 60
PagVersions == {"ParticipantsPage", "legacy"}

MathMax(a, b) == IF a >= b THEN a ELSE b
MathMin(a, b) == IF a <= b THEN a ELSE b
\* Math.ceil(a / b) for a >= 0, b > 0
MathCeilDiv(a, b) == (a + b - 1) \div b
\* Array.prototype.slice(from, to) for 0 <= from <= to
slice(s, from, to) == SubSeq(s, MathMin(from, Len(s)) + 1, MathMin(to, Len(s)))

participantRows(n) == [i \in 1..n |-> [idDoc |-> i, isAdmin |-> i % 3 = 0]]

\* filterRows with the onlyAdmins filter (the other filters select rows the same way).
filterRows(list, onlyAdmins) ==
    SelectSeq(list, LAMBDA row : ~(onlyAdmins /\ ~row.isAdmin))

filteredRows == filterRows(participantRows(pagCount), pagOnlyAdmins)

\* Math.max(1, Math.ceil(total / PAGE_SIZE))
totalPages(total) == MathMax(1, MathCeilDiv(total, PAGE_SIZE))

pageSafe_noClamp(p, pages) == p

\* Math.min(page, pages)
pageSafe(p, pages) == MathMin(p, pages)

\* filteredRows.slice(start, start + PAGE_SIZE) with start = (pageSafe - 1) * PAGE_SIZE
currentRows ==
    LET start == (pageSafe(pagPage, totalPages(Len(filteredRows))) - 1) * PAGE_SIZE
    IN  slice(filteredRows, start, start + PAGE_SIZE)

PagIdle ==
    /\ pagVersion = "ParticipantsPage"
    /\ pagCount = 0
    /\ pagOnlyAdmins = FALSE
    /\ pagPage = 1
    /\ pagResetDue = FALSE
    /\ pagLast = "mount"

\* One of the two pages mounts: no rows yet, no filter, page 1.
PagInit ==
    /\ pagVersion \in PagVersions
    /\ pagCount = 0
    /\ pagOnlyAdmins = FALSE
    /\ pagPage = 1
    /\ pagResetDue = FALSE
    /\ pagLast = "mount"

\* An effect of ParticipantsPage.tsx has yet to run: the reset after a filter change,
\* or the clamp, whose condition is page > totalPages.
EffectsDue ==
    /\ pagVersion = "ParticipantsPage"
    /\ pagResetDue \/ pagPage > totalPages(Len(filteredRows))

\* The effects of ParticipantsPage.tsx run in source order after a render, both with the
\* page of that render: setPage(1) of the reset, then setPage(totalPages) of the clamp.
RunEffects ==
    /\ EffectsDue
    /\ pagLast' = "effects"
    /\ pagPage' = IF pagPage > totalPages(Len(filteredRows))
                  THEN totalPages(Len(filteredRows))
                  ELSE 1
    /\ pagResetDue' = FALSE
    /\ UNCHANGED <<pagVersion, pagCount, pagOnlyAdmins, othersPag>>

\* A snapshot delivers n participants: setRows; the legacy page also runs setPage(1).
PagSnapshot(n) ==
    /\ ~EffectsDue
    /\ pagLast' = "snapshot"
    /\ n # pagCount
    /\ pagCount' = n
    /\ pagPage' = IF pagVersion = "legacy" THEN 1 ELSE pagPage
    /\ UNCHANGED <<pagVersion, pagOnlyAdmins, pagResetDue, othersPag>>

\* The onlyAdmins filter is switched; ParticipantsPage.tsx schedules its reset effect.
updateFilter(value) ==
    /\ ~EffectsDue
    /\ pagLast' = "filter"
    /\ value # pagOnlyAdmins
    /\ pagOnlyAdmins' = value
    /\ pagResetDue' = (pagVersion = "ParticipantsPage")
    /\ UNCHANGED <<pagVersion, pagCount, pagPage, othersPag>>

\* The "Precedent" button: the pager of ParticipantsPage.tsx is given pageSafe and calls
\* onChange(Math.max(1, page - 1)); the legacy page runs setPage(p => Math.max(1, p - 1)).
PagerPrevious ==
    LET safe == pageSafe(pagPage, totalPages(Len(filteredRows)))
    IN  /\ ~EffectsDue
        /\ ~(safe <= 1)
        /\ pagLast' = "previous"
        /\ pagPage' = IF pagVersion = "legacy"
                      THEN MathMax(1, pagPage - 1)
                      ELSE MathMax(1, safe - 1)
        /\ UNCHANGED <<pagVersion, pagCount, pagOnlyAdmins, pagResetDue, othersPag>>

\* The "Suivant" button, in the same two forms with Math.min(pages, . + 1).
PagerNext ==
    LET pages == totalPages(Len(filteredRows))
        safe == pageSafe(pagPage, pages)
    IN  /\ ~EffectsDue
        /\ ~(safe >= pages)
        /\ pagLast' = "next"
        /\ pagPage' = IF pagVersion = "legacy"
                      THEN MathMin(pages, pagPage + 1)
                      ELSE MathMin(pages, safe + 1)
        /\ UNCHANGED <<pagVersion, pagCount, pagOnlyAdmins, pagResetDue, othersPag>>

(***************************************************************************)
(* Session form (SessionModal of ProgrammePage): the fields are strings    *)
(* typed by the user; handleSubmit tests isFormValid and sends             *)
(* createSession or updateSession with the trimmed title and room.  The    *)
(* moderators of the form take no part in the validation and are left out. *)
(***************************************************************************)
\* Characters String.prototype.trim removes (those the fields of the model hold).
WhiteSpace == {" ", "\t", "\n"}

\* String.prototype.trim
RECURSIVE trimStart(_)
trimStart(str) ==
    IF str # <<>> /\ Head(str) \in WhiteSpace THEN trimStart(Tail(str)) ELSE str
RECURSIVE trimEnd(_)
trimEnd(str) ==
    IF str # <<>> /\ str[Len(str)] \in WhiteSpace
    THEN trimEnd(SubSeq(str, 1, Len(str) - 1))
    ELSE str
trim(str) == trimEnd(trimStart(str))

\* /^\d{4}-\d{2}-\d{2}$/.test(v)
isValidDate(v) ==
    /\ Len(v) = 10
    /\ \A i \in {1, 2, 3, 4, 6, 7, 9, 10} : v[i] \in AsciiDigit
    /\ v[5] = "-" /\ v[8] = "-"

isValidTime_anyHour(v) ==
    /\ Len(v) = 5
    /\ v[1] \in AsciiDigit /\ v[2] \in AsciiDigit
    /\ v[3] = ":"
    /\ v[4] \in {"0", "1", "2", "3", "4", "5"} /\ v[5] \in AsciiDigit

\* /^([01]\d|2[0-3]):([0-5]\d)$/.test(v)
isValidTime(v) ==
    /\ Len(v) = 5
    /\ \/ v[1] \in {"0", "1"} /\ v[2] \in AsciiDigit
       \/ v[1] = "2" /\ v[2] \in {"0", "1", "2", "3"}
    /\ v[3] = ":"
    /\ v[4] \in {"0", "1", "2", "3", "4", "5"} /\ v[5] \in AsciiDigit

\* Number(str) of a string of decimal digits
RECURSIVE NumberOfDigits(_, _)
NumberOfDigits(str, acc) ==
    IF str = <<>> THEN acc
    ELSE NumberOfDigits(Tail(str),
                        10 * acc + ((CHOOSE i \in 1..10 : DigitChars[i] = Head(str)) - 1))

\* t.split(':'): the parts of t between its colons
RECURSIVE split(_, _)
split(str, sep) ==
    IF \A i \in 1..Len(str) : str[i] # sep THEN <<str>>
    ELSE LET at == CHOOSE i \in 1..Len(str) :
                       str[i] = sep /\ \A j \in 1..(i - 1) : str[j] # sep
         IN  <<SubSeq(str, 1, at - 1)>> \o split(SubSeq(str, at + 1, Len(str)), sep)

\* toMinutes: h * 60 + m of the two parts; called on strings isValidTime accepted
toMinutes(time) ==
    LET parts == split(time, ":")
    IN  NumberOfDigits(parts[1], 0) * 60 + NumberOfDigits(parts[2], 0)

\* isFormValid, its tests in the order of the source
isFormValid_of(title, date, start, end, room) ==
    IF trim(title) = <<>> THEN FALSE
    ELSE IF ~isValidDate(date) THEN FALSE
    ELSE IF ~isValidTime(start) \/ ~isValidTime(end) THEN FALSE
    ELSE IF toMinutes(start) >= toMinutes(end) THEN FALSE
    ELSE IF trim(room) = <<>> THEN FALSE
    ELSE TRUE

\* What the user can put in the fields.
TitleInputs == {<<>>, <<" ", "\t">>, <<"a">>, <<" ", "a", "\n">>}
RoomInputs == {<<>>, <<"\n", " ">>, <<" ", "r", " ">>}
DateInputs ==
    {<<>>,
     <<"2", "0", "2", "5", "-", "0", "1", "-", "3", "1">>,
     <<"2", "0", "2", "5", "-", "1", "-", "3", "1">>,
     <<"2", "0", "2", "5", "/", "0", "1", "/", "3", "1">>,
     <<"2", "0", "2", "5", "-", "0", "1", "-", "3", "1", "\n">>,
     <<"2", "0", "2", "5", "-", "0", "1", "-", "3", "x">>}
TimeInputs ==
    {<<>>,
     <<"0", "0", ":", "0", "0">>,
     <<"0", "9", ":", "3", "0">>,
     <<"1", "0", ":", "0", "0">>,
     <<"2", "3", ":", "5", "9">>,
     <<"2", "4", ":", "0", "0">>,
     <<"1", "2", ":", "6", "0">>,
     <<"9", ":", "3", "0">>,
     <<"1", "0", ":", "0", "0", "\n">>,
     <<"1", "0", "-", "0", "0">>}

FixFieldsMessage == "Veuillez corriger les champs requis."
NoFormLog == [kind |-> "none", title |-> <<>>, room |-> <<>>]

\* A stored session, as the modal receives it to edit.
StoredSession ==
    [title |-> <<"a">>, date |-> <<"2", "0", "2", "5", "-", "0", "1", "-", "3", "1">>,
     start |-> <<"0", "9", ":", "3", "0">>, end |-> <<"1", "0", ":", "0", "0">>,
     room |-> <<" ", "r", " ">>]

FormIdle ==
    /\ formIsEdit = FALSE
    /\ formTitle = <<>> /\ formDate = <<>> /\ formStart = <<>> /\ formEnd = <<>>
    /\ formRoom = <<>>
    /\ formOpen = FALSE
    /\ formSubmitting = FALSE
    /\ formError = "null"
    /\ formLog = NoFormLog

\* The modal opens: empty fields to create a session, the fields of the stored session
\* to edit it.
FormInit ==
    /\ formIsEdit \in BOOLEAN
    /\ formTitle = (IF formIsEdit THEN StoredSession.title ELSE <<>>)
    /\ formDate = (IF formIsEdit THEN StoredSession.date ELSE <<>>)
    /\ formStart = (IF formIsEdit THEN StoredSession.start ELSE <<>>)
    /\ formEnd = (IF formIsEdit THEN StoredSession.end ELSE <<>>)
    /\ formRoom = (IF formIsEdit THEN StoredSession.room ELSE <<>>)
    /\ formOpen = TRUE
    /\ formSubmitting = FALSE
    /\ formError = "null"
    /\ formLog = NoFormLog

FormKeeps == UNCHANGED <<formIsEdit, formOpen, formSubmitting, formError, othersForm>>

setTitle(value) ==
    /\ formOpen /\ value # formTitle
    /\ formTitle' = value /\ formLog' = NoFormLog
    /\ FormKeeps /\ UNCHANGED <<formDate, formStart, formEnd, formRoom>>

setDate(value) ==
    /\ formOpen /\ value # formDate
    /\ formDate' = value /\ formLog' = NoFormLog
    /\ FormKeeps /\ UNCHANGED <<formTitle, formStart, formEnd, formRoom>>

setStart(value) ==
    /\ formOpen /\ value # formStart
    /\ formStart' = value /\ formLog' = NoFormLog
    /\ FormKeeps /\ UNCHANGED <<formTitle, formDate, formEnd, formRoom>>

setEnd(value) ==
    /\ formOpen /\ value # formEnd
    /\ formEnd' = value /\ formLog' = NoFormLog
    /\ FormKeeps /\ UNCHANGED <<formTitle, formDate, formStart, formRoom>>

setRoom(value) ==
    /\ formOpen /\ value # formRoom
    /\ formRoom' = value /\ formLog' = NoFormLog
    /\ FormKeeps /\ UNCHANGED <<formTitle, formDate, formStart, formEnd>>

\* handleSubmit up to its await: the error and nothing else when the form is not valid,
\* otherwise the flags and the write, updateSession when editing and createSession
\* when not, with the trimmed title and room.
SessionForm_handleSubmit ==
    /\ formOpen /\ ~formSubmitting
    /\ IF ~isFormValid_of(formTitle, formDate, formStart, formEnd, formRoom)
       THEN /\ formError' = FixFieldsMessage
            /\ formLog' = [NoFormLog EXCEPT !.kind = "refused"]
            /\ UNCHANGED formSubmitting
       ELSE /\ formSubmitting' = TRUE
            /\ formError' = "null"
            /\ formLog' = [kind |-> IF formIsEdit THEN "updateSession" ELSE "createSession",
                           title |-> trim(formTitle), room |-> trim(formRoom)]
    /\ UNCHANGED <<formIsEdit, formTitle, formDate, formStart, formEnd, formRoom,
                   formOpen, othersForm>>

\* The write ends: onSaved and onClose, or the message of the rejection; then
\* setSubmitting(false).
SessionForm_handleSubmitDone(ok) ==
    /\ formSubmitting
    /\ formSubmitting' = FALSE
    /\ formOpen' = IF ok THEN FALSE ELSE formOpen
    /\ formError' = IF ok THEN formError ELSE "err.message"
    /\ formLog' = [NoFormLog EXCEPT !.kind = IF ok THEN "saved" ELSE "failed"]
    /\ UNCHANGED <<formIsEdit, formTitle, formDate, formStart, formEnd, formRoom, othersForm>>

(***************************************************************************)
(* Specifications                                                          *)
(***************************************************************************)
SanNext == CallSanitizeFiles \/ CallSanitizeStorage \/ CallSanitizeAgain
InitSanitize == SanInit /\ UpIdle /\ LinksIdle /\ ProgIdle /\ PdfIdle /\ UiIdle /\ FilesIdle /\ SponIdle /\ AuthIdle /\ SubIdle /\ PagIdle /\ FormIdle
SpecSanitize == InitSanitize /\ [][SanNext]_vars

UpNext == UploadToArea \/ Tick
InitUpload == UpInit /\ SanIdle /\ LinksIdle /\ ProgIdle /\ PdfIdle /\ UiIdle /\ FilesIdle /\ SponIdle /\ AuthIdle /\ SubIdle /\ PagIdle /\ FormIdle
SpecUpload == InitUpload /\ [][UpNext]_vars

LinksNext ==
    \/ \E c \in LinkClients : LinkSnapshot(c)
    \/ \E c \in LinkClients, isUp \in BOOLEAN, idx \in LinkIds : LinkMove(c, isUp, idx)
    \/ \E c \in LinkClients, idx \in LinkIds : LinkDelete(c, idx)
InitLinks == LinksInit /\ SanIdle /\ UpIdle /\ ProgIdle /\ PdfIdle /\ UiIdle /\ FilesIdle /\ SponIdle /\ AuthIdle /\ SubIdle /\ PagIdle /\ FormIdle
SpecLinks == InitLinks /\ [][LinksNext]_vars

ProgNext ==
    \/ \E k \in ProgClients, x \in AllSessions, i \in ExplicitIndexes :
          AddWithIndex(k, x[1], x[2], i)
    \/ \E k \in ProgClients, x \in AllSessions : AddRead(k, x[1], x[2])
    \/ \E k \in ProgClients : AddWrite(k)
    \/ \E k \in Cascaders, x \in AllSessions : CascadeList(k, x[1], x[2])
    \/ \E k \in ProgClients : CascadeCommit(k)
    \/ \E k \in ProgClients : CascadeRejected(k)
    \/ \E k \in Counters, c \in Congresses : CountList(k, c)
    \/ \E k \in ProgClients : CountStep(k)
InitProg == ProgInit /\ SanIdle /\ UpIdle /\ LinksIdle /\ PdfIdle /\ UiIdle /\ FilesIdle /\ SponIdle /\ AuthIdle /\ SubIdle /\ PagIdle /\ FormIdle
SpecProg == InitProg /\ [][ProgNext]_vars

PdfNext ==
    \/ \E path \in AllPaths : PutObject(path)
    \/ \E base \in Folders, badList \in {{}, {<<SegX>>}}, metaFails, urlFails \in BOOLEAN :
          CollectAllPdfs(base, badList, metaFails, urlFails)
    \/ \E refs \in RootLists, badList \in GatherBadLists, metaFails, urlFails \in BOOLEAN :
          \E order \in Orders(Len(refs)) :
             GatherPdfsFrom(refs, order, badList, metaFails, urlFails)
InitPdf == PdfIdle /\ SanIdle /\ UpIdle /\ LinksIdle /\ ProgIdle /\ UiIdle /\ FilesIdle /\ SponIdle /\ AuthIdle /\ SubIdle /\ PagIdle /\ FormIdle
SpecPdf == InitPdf /\ [][PdfNext]_vars

UiNext ==
    \/ \E target \in Pages, hasRows \in BOOLEAN : Navigate(target, hasRows)
    \/ refresh
    \/ \E ok \in BOOLEAN : refreshDone(ok)
    \/ handleStartCreate
    \/ handleSelectRow
    \/ handleSave
    \/ \E ok \in BOOLEAN : handleSaveDone(ok)
    \/ \E confirmDelete \in BOOLEAN : handleDelete(confirmDelete)
    \/ \E ok \in BOOLEAN : handleDeleteDone(ok)
    \/ openLinkModal
    \/ \E valid, isEdit \in BOOLEAN : LinkModal_onSubmit(valid, isEdit)
    \/ \E ok \in BOOLEAN : LinkModal_onSubmitDone(ok)
    \/ askDeleteLink
    \/ LinksPage_onConfirm
    \/ \E ok \in BOOLEAN : LinksPage_onConfirmDone(ok)
    \/ openCreateSession
    \/ \E isFormValid, isEdit \in BOOLEAN : SessionModal_handleSubmit(isFormValid, isEdit)
    \/ \E ok \in BOOLEAN : SessionModal_handleSubmitDone(ok)
    \/ askDeleteSession
    \/ ProgrammePage_onConfirm
    \/ \E ok \in BOOLEAN : ProgrammePage_onConfirmDone(ok)
    \/ openSponsorModal
    \/ \E valid \in BOOLEAN : SponsorModal_handleSubmit(valid)
    \/ \E ok \in BOOLEAN : SponsorModal_handleSubmitDone(ok)
    \/ onCancel
InitUi == UiInit /\ SanIdle /\ UpIdle /\ LinksIdle /\ ProgIdle /\ PdfIdle /\ FilesIdle /\ SponIdle /\ AuthIdle /\ SubIdle /\ PagIdle /\ FormIdle
SpecUi == InitUi /\ [][UiNext]_vars

FilesNext == CallIsImage \/ CallIsPdf \/ CallFormatBytes
InitFiles == FilesInit /\ SanIdle /\ UpIdle /\ LinksIdle /\ ProgIdle /\ PdfIdle /\ UiIdle /\ SponIdle /\ AuthIdle /\ SubIdle /\ PagIdle /\ FormIdle
SpecFiles == InitFiles /\ [][FilesNext]_vars

SponNext ==
    \/ \E c \in SponAdmins : watchCongres_cb(c)
    \/ \E c \in SponClients, title \in Titles, flag \in BOOLEAN, index \in -1 .. (MaxSponsors - 1) :
          handleSaveSponsor(c, [title |-> title, affichageBandeau |-> flag], index)
    \/ \E c \in SponClients, index \in 0 .. (MaxSponsors - 1) : handleDeleteSponsor(c, index)
    \/ \E c \in SponClients, index \in 0 .. (MaxSponsors - 1) : handleToggleBanner(c, index)
    \/ \E c \in SponAdmins, ok \in BOOLEAN : updateCongres(c, ok)
InitSponsors == SponIdle /\ SanIdle /\ UpIdle /\ LinksIdle /\ ProgIdle /\ PdfIdle /\ UiIdle /\ FilesIdle /\ AuthIdle /\ SubIdle /\ PagIdle /\ FormIdle
SpecSponsors == InitSponsors /\ [][SponNext]_vars

AuthNext ==
    \/ \E currentUser \in AuthUsers \cup {NoUser} : onAuthStateChanged(currentUser)
    \/ \E k \in lookups, ok \in BOOLEAN : getIdTokenResult(k, ok)
    \/ \E k \in lookups, ok \in BOOLEAN : getIdTokenResult_forced(k, ok)
    \/ \E loc \in Paths : OpenPath(loc)
InitAuth == AuthInit /\ SanIdle /\ UpIdle /\ LinksIdle /\ ProgIdle /\ PdfIdle /\ UiIdle /\ FilesIdle /\ SponIdle /\ SubIdle /\ PagIdle /\ FormIdle
SpecAuth == InitAuth /\ [][AuthNext]_vars

SubNext ==
    \/ \E p \in SubPages, congresId \in CongresIds : SubMount(p, congresId)
    \/ \E p \in SubPages, congresId \in CongresIds : SubChangeCongres(p, congresId)
    \/ \E p \in SubPages : SubUnmount(p)
    \/ \E l \in listeners : SnapshotQueued(l)
    \/ \E l \in snapsQueued : SnapshotDelivered(l)
InitSub == SubIdle /\ SanIdle /\ UpIdle /\ LinksIdle /\ ProgIdle /\ PdfIdle /\ UiIdle /\ FilesIdle /\ SponIdle /\ AuthIdle /\ PagIdle /\ FormIdle
SpecSub == InitSub /\ [][SubNext]_vars

PagNext ==
    \/ RunEffects
    \/ \E n \in 0..MaxRows : PagSnapshot(n)
    \/ \E value \in BOOLEAN : updateFilter(value)
    \/ PagerPrevious
    \/ PagerNext
InitPag == PagInit /\ SanIdle /\ UpIdle /\ LinksIdle /\ ProgIdle /\ PdfIdle /\ UiIdle /\ FilesIdle /\ SponIdle /\ AuthIdle /\ SubIdle /\ FormIdle
SpecPag == InitPag /\ [][PagNext]_vars

FormNext ==
    \/ \E value \in TitleInputs : setTitle(value)
    \/ \E value \in DateInputs : setDate(value)
    \/ \E value \in TimeInputs : setStart(value)
    \/ \E value \in TimeInputs : setEnd(value)
    \/ \E value \in RoomInputs : setRoom(value)
    \/ SessionForm_handleSubmit
    \/ \E ok \in BOOLEAN : SessionForm_handleSubmitDone(ok)
InitForm == FormInit /\ SanIdle /\ UpIdle /\ LinksIdle /\ ProgIdle /\ PdfIdle /\ UiIdle /\ FilesIdle /\ SponIdle /\ AuthIdle /\ SubIdle /\ PagIdle
SpecForm == InitForm /\ [][FormNext]_vars

(***************************************************************************)
(* Claims about the file-name sanitizers and the storage API               *)
(***************************************************************************)
\* The characters the sanitizer is said to keep: ASCII letter, digit, underscore, dot, hyphen.
KeptChar == AsciiLower \cup AsciiUpper \cup AsciiDigit \cup {"_", ".", "-"}

\* C10: sanitizeFileName replaces each character that is not an ASCII letter, digit,
\* underscore, dot or hyphen by one underscore and keeps every other character, so the
\* result has the length of the input, sanitizing twice equals sanitizing once, and the
\* storageApi copy returns what the lib/files copy returns.
Thm_C10 ==
    /\ sRes.files.done =>
         /\ Len(sRes.files.val) = Len(sName)
         /\ \A i \in 1..Len(sName) :
              sRes.files.val[i] = IF sName[i] \in KeptChar THEN sName[i] ELSE "_"
    /\ sRes.twice.done => sRes.twice.val = sRes.files.val
    /\ (sRes.files.done /\ sRes.storage.done) => sRes.storage.val = sRes.files.val

\* C10 witness: a name with a kept hyphen and a replaced character went through both
\* copies and through a second sanitizing.
Wit_C10 ==
    /\ sRes.files.done /\ sRes.storage.done /\ sRes.twice.done
    /\ \E i, j \in 1..Len(sName) : sName[i] = "-" /\ sName[j] \notin KeptChar

\* The path an upload is said to get.
ClaimedPath(area, user, name, ts) ==
    LET fn == [i \in 1..Len(name) |-> IF name[i] \in KeptChar THEN name[i] ELSE "_"]
    IN  IF area \in {"qrcodes", "qrcodesCarteDeVisite", "photos", "badges", "intervenants"}
        THEN <<area, "/", user, "/", ToString(ts), "_">> \o fn
        ELSE <<area, "/", ToString(ts), "_">> \o fn

\* C7: every upload of uploadToArea goes to <area>/<uid>/<ts>_<sanitized name> in a
\* user-owned area and to <area>/<ts>_<sanitized name> otherwise; an upload to a
\* user-owned area lies in the uploader's own folder, under the prefix listArea lists for
\* that user, and is among the items listArea returns for that user.
Thm_C7 ==
    up.res.ok =>
      /\ up.res.path = ClaimedPath(up.area, up.user, up.name, up.ts)
      /\ up.res.path \in store
      /\ up.area \in userOwned =>
           /\ IsPrefix(<<up.area, "/", up.user, "/">>, up.res.path)
           /\ IsPrefix(listAreaPrefix(up.area, up.user), up.res.path)
           /\ up.res.path \in listArea(up.area, up.user, store)
           /\ \A other \in Uids \ {up.user} :
                up.res.path \notin listArea(up.area, other, store)

\* C7 witness: a file whose name holds a slash was uploaded to a user-owned area.
Wit_C7 ==
    /\ up.res.ok /\ up.area \in userOwned
    /\ \E i \in 1..Len(up.name) : up.name[i] = "/"

\* C8: uploadToArea with isAdmin = false for an admin-only-write area throws and uploads
\* nothing; for a user-owned area with no user it throws "Utilisateur requis pour cette
\* zone." and uploads nothing.
Thm_C8 ==
    /\ (up.area \in {"imgIntervenants", "imgSponsors", "programme", "abstracts", "plan"}
        /\ ~up.isAdmin)
         => (~up.res.ok /\ store = up.before)
    /\ (up.area \in {"qrcodes", "qrcodesCarteDeVisite", "photos", "badges", "intervenants"}
        /\ up.user = NoUser)
         => (~up.res.ok /\ up.res.err = ErrUser /\ store = up.before)

\* C8 witness: with an object already in the bucket, a non-admin call for an admin-only
\* area was refused.
Wit_C8 ==
    /\ up.area \in adminOnlyWrite /\ ~up.isAdmin /\ up.user # NoUser
    /\ ~up.res.ok /\ store # {}

(***************************************************************************)
(* Claims about the links                                                  *)
(***************************************************************************)
\* A step in which a swapLinkOrder batch commits.
SwapCommits == swapLog'.n # swapLog.n /\ swapLog'.ok

StoredSum(c) ==
    LET ss == {x[2] : x \in {y \in sessions : y[1] = c}}
    IN  SetSum(ss, [s \in ss |-> Cardinality(presentationsCol(pres, c, s))])

RECURSIVE SeqSum(_)
SeqSum(q) == IF q = <<>> THEN 0 ELSE Head(q)[2] + SeqSum(Tail(q))

\* C3: a presentation created by addPresentation without an index is stored
\* with 1 + the largest index stored in its session when the call queried it,
\* and with 1 when the session held no presentation.
Thm_C3 ==
    \A d \in pres :
        d.auto => d.index = (IF d.seen = {} THEN 1 ELSE 1 + SetMax(d.seen))

\* a session holding indexes 2 and 4 received an automatic index 5, and an
\* empty session received an automatic index 1
Wit_C3 ==
    /\ \E d \in pres : d.auto /\ d.seen = {2, 4} /\ d.index = 5
    /\ \E d \in pres : d.auto /\ d.seen = {} /\ d.index = 1

CascadeEnds(k) == op[k].kind = "del" /\ op'[k].kind = "idle"

Thm_C6 ==
    progLog.kind = "count" =>
        /\ progLog.total = SeqSum(progLog.counted)
        /\ progLog.quiet => progLog.total = StoredSum(progLog.cong)

\* a count over two sessions that both hold presentations has just returned
Wit_C6 ==
    /\ progLog.kind = "count" /\ progLog.quiet /\ progLog.total >= 3
    /\ Len(progLog.counted) = 2
    /\ \A i \in 1..2 : progLog.counted[i][2] >= 1

\* C14: within one session, no two presentations created by addPresentation
\* without an index share an index, overlapping calls included.
Orig_C14 ==
    \A d, e \in pres :
        (d.auto /\ e.auto /\ d.id # e.id /\ d.cong = e.cong /\ d.sess = e.sess)
            => d.index # e.index

(***************************************************************************)
(* PDF import claims                                                       *)
(***************************************************************************)
\* the name ends with '.pdf' in any mix of upper and lower case
NameEndsDotPdf(n) ==
    /\ Len(n) >= 4
    /\ n[Len(n) - 3] = "."
    /\ n[Len(n) - 2] \in {"p", "P"}
    /\ n[Len(n) - 1] \in {"d", "D"}
    /\ n[Len(n)] \in {"f", "F"}

ObjectsUnder(base) == {q \in bucket : IsPrefix(base, q) /\ Len(q) > Len(base)}

\* the folders strictly below base: the proper prefixes of the objects below it
FoldersUnder(base) ==
    UNION {{SubSeq(q, 1, n) : n \in (Len(base) + 1)..(Len(q) - 1)} : q \in ObjectsUnder(base)}

\* C5: a collectAllPdfs(base) that returns gives one row, and only one, for
\* each object below base at any depth whose name ends with '.pdf' in any
\* letter case, no row for another object, and it made exactly one listing
\* per folder of the finite tree below base.
Thm_C5 ==
    (pdfRes.done /\ pdfRes.res.ok) =>
        LET rws == pdfRes.res.rows
            expected == {q \in ObjectsUnder(pdfRes.base) : NameEndsDotPdf(q[Len(q)])}
        IN  /\ {rws[i].path : i \in 1..Len(rws)} = expected
            /\ Len(rws) = Cardinality(expected)
            /\ \A i \in 1..Len(rws) : rws[i].name = rws[i].path[Len(rws[i].path)]
            /\ pdfRes.res.calls = 1 + Cardinality(FoldersUnder(pdfRes.base))

\* a call on the root returned rows from three depths, one of them for a name
\* in mixed case, and skipped objects that are not PDFs
Wit_C5 ==
    /\ pdfRes.done /\ pdfRes.res.ok /\ pdfRes.base = <<>>
    /\ Len(pdfRes.res.rows) = 2
    /\ \E i \in 1..2 : pdfRes.res.rows[i].path = <<SegX, SegDpdf, SegBPdF>>
    /\ \E i \in 1..2 : Len(pdfRes.res.rows[i].path) = 1
    /\ \E q \in bucket : ~NameEndsDotPdf(q[Len(q)])

\* The roots of a list whose listing succeeds: no folder that rejects is the root or
\* a folder below it.
ListedRoots(refs, badList) ==
    {i \in 1..Len(refs) : badList \cap ({refs[i]} \cup FoldersUnder(refs[i])) = {}}

\* C19: gatherPdfsFrom returns one row, and only one, for each PDF below any root
\* whose listing succeeded, whether roots overlap or not and whether another root
\* failed or not, and one error for each root whose listing failed.
Thm_C19 ==
    gathered.done =>
        LET rws == gathered.res.rows
            listed == ListedRoots(gathered.refs, gathered.badList)
            expected == {q \in UNION {ObjectsUnder(gathered.refs[i]) : i \in listed} :
                            NameEndsDotPdf(q[Len(q)])}
        IN  /\ {rws[i].path : i \in 1..Len(rws)} = expected
            /\ Len(rws) = Cardinality(expected)
            /\ Len(gathered.res.errors) = Len(gathered.refs) - Cardinality(listed)

\* two overlapping roots and a third one were gathered; the PDF below both
\* overlapping roots is in the result once, and the listing of the third root, which
\* holds a PDF too, failed and gave the one error
Wit_C19 ==
    /\ gathered.done
    /\ gathered.refs = <<<<SegX>>, <<SegX, SegDpdf>>, <<SegDpdf>>>>
    /\ gathered.badList = {<<SegDpdf>>}
    /\ Len(gathered.res.errors) = 1
    /\ Len(gathered.res.rows) = 1
    /\ gathered.res.rows[1].path = <<SegX, SegDpdf, SegBPdF>>
    /\ <<SegDpdf, SegBPdF>> \in bucket

(***************************************************************************)
(* Page claims                                                             *)
(***************************************************************************)
\* C1: while the signed-in user is not an admin, no create, update or delete
\* has been sent to the backend from any page.
Orig_C1 == ~authIsAdmin => sent = {}

\* C9: a page operation that called the backend has ended with its busy flag
\* false, with the failure message displayed when the call failed, and with
\* no rejection left unhandled.
Orig_C9 ==
    (lastEnd.op # "none" /\ lastEnd.backend) =>
        /\ lastEnd.op \notin busy
        /\ lastEnd.failed => lastEnd.op \in shown
        /\ lastEnd.op \notin uncaught

(***************************************************************************)
(* File utility claims                                                     *)
(***************************************************************************)
\* the value of a string of decimal digits
RECURSIVE DigitsValue(_)
DigitsValue(s) ==
    IF s = <<>> THEN 0
    ELSE 10 * DigitsValue(SubSeq(s, 1, Len(s) - 1))
         + ((CHOOSE i \in 1..10 : DigitChars[i] = s[Len(s)]) - 1)

IsDigits(s) == s # <<>> /\ \A i \in 1..Len(s) : \E j \in 1..10 : DigitChars[j] = s[i]

\* a decimal numeral without a leading zero, with a minus sign when negative
IsNumeral(s, n) ==
    LET body == IF n < 0 THEN Tail(s) ELSE s
    IN  /\ s # <<>> /\ (n < 0 => s[1] = "-")
        /\ IsDigits(body) /\ (Len(body) > 1 => body[1] # "0")
        /\ DigitsValue(body) = (IF n < 0 THEN -n ELSE n)

Abs(x) == IF x < 0 THEN -x ELSE x

\* C11: formatBytes gives '' for null and undefined, '<n> o' below 1024,
\* '<k> Ko' with k the integer nearest to n / 1024 below 1048576, and
\* otherwise '<m> Mo' with m the one-decimal number nearest to n / 1048576.
Thm_C11 ==
    fRes.fn = "formatBytes" =>
        LET out == fRes.str
            n == fArg.n
            cut(k) == SubSeq(out, 1, Len(out) - k)
            last(k) == SubSeq(out, Len(out) - k + 1, Len(out))
        IN  IF fArg.t # "number" THEN out = <<>>
            ELSE IF n < 1024
            THEN Len(out) > 2 /\ last(2) = <<" ", "o">> /\ IsNumeral(cut(2), n)
            ELSE IF n < 1048576
            THEN /\ Len(out) > 3 /\ last(3) = <<" ", "K", "o">>
                 /\ IsDigits(cut(3)) /\ (Len(cut(3)) > 1 => out[1] # "0")
                 /\ 2 * Abs(1024 * DigitsValue(cut(3)) - n) <= 1024
            ELSE /\ Len(out) > 5 /\ last(3) = <<" ", "M", "o">>
                 /\ out[Len(out) - 4] = "."
                 /\ IsDigits(cut(5)) /\ (Len(cut(5)) > 1 => out[1] # "0")
                 /\ IsDigits(<<out[Len(out) - 3]>>)
                 /\ LET tenths == 10 * DigitsValue(cut(5)) + DigitsValue(<<out[Len(out) - 3]>>)
                    IN  2 * Abs(1048576 * tenths - 10 * n) <= 1048576

\* 1536 bytes, exactly one and a half kilobytes, has been formatted as '2 Ko'
Wit_C11 ==
    /\ fRes.fn = "formatBytes" /\ fArg = Num(1536)
    /\ fRes.str = <<"2", " ", "K", "o">>

\* C12: isImage is true exactly for a non-empty string that starts with
\* 'image/', and false for null, undefined and every other string.
Thm_C12 ==
    fRes.fn = "isImage" =>
        (fRes.bool <=>
            /\ fArg.t = "string" /\ Len(fArg.s) >= 6
            /\ fArg.s[1] = "i" /\ fArg.s[2] = "m" /\ fArg.s[3] = "a"
            /\ fArg.s[4] = "g" /\ fArg.s[5] = "e" /\ fArg.s[6] = "/")

\* isImage has answered true for the bare prefix 'image/'
Wit_C12 == fRes.fn = "isImage" /\ fArg = Str(ImageSlash) /\ fRes.bool

\* C13: isPdf is true exactly for the string 'application/pdf', and false for
\* null, undefined and every other value.
Thm_C13 ==
    fRes.fn = "isPdf" =>
        (fRes.bool <=>
            /\ fArg.t = "string" /\ Len(fArg.s) = 15
            /\ SubSeq(fArg.s, 1, 11) = <<"a", "p", "p", "l", "i", "c", "a", "t", "i", "o", "n">>
            /\ SubSeq(fArg.s, 12, 15) = <<"/", "p", "d", "f">>)

\* isPdf has answered true for 'application/pdf'
Wit_C13 == fRes.fn = "isPdf" /\ fRes.bool /\ fArg.t = "string" /\ Len(fArg.s) = 15

(***************************************************************************)
(* Claims about the sponsors page                                          *)
(***************************************************************************)
\* C15: a save, delete or banner toggle of one sponsor changes only that sponsor's
\* entry of the stored listSponsors: every other entry stored before the write
\* (those added or changed by another admin since this client's snapshot included)
\* is still in the array, unchanged, after the write.
Orig_C15 ==
    sponLog.kind \in {"save", "delete", "toggle"} =>
        \A i \in 1 .. Len(sponLog.before) :
            sponLog.before[i].id # sponLog.target =>
                \E j \in 1 .. Len(sponLog.after) : sponLog.after[j] = sponLog.before[i]

(***************************************************************************)
(* Claims about AuthProvider and ProtectedRoute                            *)
(***************************************************************************)
\* C16: whenever loading is false and isAdmin is true, user is non-null and the admin
\* flag was read from the token of that user.
Orig_C16 ==
    (~provLoading /\ provIsAdmin) => (provUser # NoUser /\ claimOf = provUser)

\* C17: a page of the protected area is rendered only when loading is false and user
\* is non-null; while loading a protected path shows the placeholder, and with
\* loading false and no user the router is at /signin.
Thm_C17 ==
    /\ rendered \in ProtectedPaths => (~provLoading /\ provUser # NoUser)
    /\ (provLoading /\ location \in ProtectedPaths) => rendered = "placeholder"
    /\ (~provLoading /\ provUser = NoUser) => (location = SignInPath /\ rendered = "SignIn")

\* A signed-in user was shown a protected page, signed out, and was sent to /signin.
Wit_C17 ==
    /\ lastRedirect = "toSignIn"
    /\ authEvents >= 2
    /\ provUser = NoUser
    /\ ~provLoading

(***************************************************************************)
(* Claims about the live lists                                             *)
(***************************************************************************)
\* C18: a page has at most one live listener, which belongs to a mounted page and
\* watches the page's current congress; and every delivery that writes the page's
\* rows carries data of the congress the page watches at that moment.
Thm_C18 ==
    /\ \A p \in SubPages : Cardinality(listenersOf(listeners, p)) <= 1
    /\ \A l \in listeners : subMounted[l.page] /\ l.congres = subCongres[l.page]
    /\ subLog.kind = "cb" =>
          (subMounted[subLog.page] /\ subLog.dataOf = subCongres[subLog.page])

\* An event queued for the previous congress arrived after the page had moved to
\* another congress, and was not written.
Wit_C18 ==
    /\ subLog.kind = "dropped"
    /\ subMounted[subLog.page]
    /\ subLog.dataOf # subCongres[subLog.page]

(***************************************************************************)
(* Claims about the pagination of the participants list                    *)
(***************************************************************************)
\* The least p >= 1 with p * PAGE_SIZE >= total.
PagesFor(total) ==
    CHOOSE p \in 1..(total + 1) :
        /\ p * PAGE_SIZE >= total
        /\ \A r \in 1..(p - 1) : r * PAGE_SIZE < total

\* C20: at every render the page shown, pageSafe, lies in 1..pages with
\* pages = max(1, ceil(total / 25)); the rows shown are the rows of the filtered list
\* at positions (pageSafe - 1) * 25 to pageSafe * 25 - 1, as far as the list goes; and
\* the rows shown are not empty when the filtered list is not empty.
Thm_C20 ==
    LET total == Len(filteredRows)
        pages == totalPages(total)
        safe == pageSafe(pagPage, pages)
        span == {i \in 1..total : (safe - 1) * PAGE_SIZE <= i - 1 /\ i - 1 <= safe * PAGE_SIZE - 1}
    IN  /\ pages = PagesFor(total)
        /\ 1 <= safe /\ safe <= pages
        /\ Len(currentRows) = Cardinality(span)
        /\ \A k \in 1..Len(currentRows) :
              currentRows[k] = filteredRows[(safe - 1) * PAGE_SIZE + k]
        /\ total > 0 => currentRows # <<>>

\* The page state is past the last page of a non-empty filtered list (the list shrank
\* while page 3 was shown) and the last page is what is shown.
Wit_C20 ==
    /\ pagPage = 3
    /\ totalPages(Len(filteredRows)) = 1
    /\ Len(filteredRows) > 0
    /\ Len(currentRows) = Len(filteredRows)

(***************************************************************************)
(* Claims about the session form                                           *)
(***************************************************************************)
NonBlank(str) == \E i \in 1..Len(str) : str[i] \notin WhiteSpace

\* YYYY-MM-DD: four digits, two digits, two digits, with hyphens between them.
HasDateForm(str) ==
    /\ Len(str) = 10
    /\ IsDigits(SubSeq(str, 1, 4)) /\ str[5] = "-"
    /\ IsDigits(SubSeq(str, 6, 7)) /\ str[8] = "-"
    /\ IsDigits(SubSeq(str, 9, 10))

\* HH:MM with the hour in 0..23 and the minute in 0..59.
IsTimeOfDay(str) ==
    /\ Len(str) = 5 /\ str[3] = ":"
    /\ IsDigits(SubSeq(str, 1, 2)) /\ IsDigits(SubSeq(str, 4, 5))
    /\ DigitsValue(SubSeq(str, 1, 2)) <= 23
    /\ DigitsValue(SubSeq(str, 4, 5)) <= 59

\* The time of day a comes strictly before b.
IsEarlier(a, b) ==
    \/ DigitsValue(SubSeq(a, 1, 2)) < DigitsValue(SubSeq(b, 1, 2))
    \/ /\ DigitsValue(SubSeq(a, 1, 2)) = DigitsValue(SubSeq(b, 1, 2))
       /\ DigitsValue(SubSeq(a, 4, 5)) < DigitsValue(SubSeq(b, 4, 5))

FormFieldsValid ==
    /\ NonBlank(formTitle) /\ NonBlank(formRoom)
    /\ HasDateForm(formDate)
    /\ IsTimeOfDay(formStart) /\ IsTimeOfDay(formEnd)
    /\ IsEarlier(formStart, formEnd)

\* C21: handleSubmit sends createSession or updateSession only when the title and the
\* room are non-blank, the date has the form YYYY-MM-DD, start and end are times of
\* day from 00:00 to 23:59 and start is strictly earlier than end; with any other
\* fields it sends no write and sets the error.
Thm_C21 ==
    /\ formLog.kind \in {"createSession", "updateSession"} =>
          (FormFieldsValid /\ formSubmitting)
    /\ formLog.kind = "refused" =>
          (~FormFieldsValid /\ ~formSubmitting /\ formError = FixFieldsMessage)

\* A form whose only fault is an end that is not later than its start was refused.
Wit_C21 ==
    /\ formLog.kind = "refused"
    /\ NonBlank(formTitle) /\ NonBlank(formRoom) /\ HasDateForm(formDate)
    /\ IsTimeOfDay(formStart) /\ IsTimeOfDay(formEnd)
    /\ formStart = formEnd

====
